---- MODULE Spec2Model ----
(***************************************************************************)
(* A model of the shopping assistant's caching, enrichment and ranking     *)
(* pipeline (healinglad/utility-shopping-assistant).                       *)
(*                                                                         *)
(* The module holds several specifications over one set of variables:      *)
(*   SpecCache   the on-disk cache of utils/helpers.py                     *)
(*   SpecKey     generate_cache_key of utils/helpers.py                     *)
(*   SpecRetry   retry_with_backoff of utils/helpers.py                     *)
(*   SpecEnrich  DataCollector.collect_reviews and its worker tasks        *)
(*   SpecPool    the executor of collect_reviews on longer shortlists      *)
(*   SpecRank    ProductAnalyzer and RecommendationEngine                  *)
(*   SpecTop     generate_recommendations on more than top_count products  *)
(*   SpecAlt     RecommendationEngine on products read from the cache      *)
(*   SpecSearch  ShoppingAssistant.search, one request end to end          *)
(*   SpecShortlist  search from collect_reviews on, more than five products *)
(* Each specification moves only its own variables.                        *)
(***************************************************************************)
EXTENDS Integers, Sequences, FiniteSets, TLC

VARIABLES
    files,      \* cache directory: cache key -> content of <key>.json
    now,        \* the wall clock (datetime.now()), in ticks
    ret,        \* outcome of the last cache call
    lastPut,    \* per key: the last event that touched the file
    heap,       \* product objects (dicts, mutated in place): object -> fields
    products,   \* collect_reviews: the products argument (object references)
    top,        \* collect_reviews: top_products
    task,       \* per shortlist position: the future and its worker's locals
    mainpc,     \* collect_reviews: position of the calling thread
    processed,  \* futures the as_completed loop has handled
    cfg,        \* configuration and arguments of the run
    forumLog,   \* what the run did with the forum source and its cache keys
    aheap,      \* product objects as the analyzer sees them: object -> fields
    alist,      \* the products list handed to the analyzer / the engine
    abudget,    \* the budget of the request
    aprefs,     \* the preferences of the request
    acall,      \* the last analyzer / engine call and what it returned
    ncalls,     \* number of analyzer / engine calls made on these objects
    search,     \* ShoppingAssistant.search: its position, locals and response
    keyed,      \* generate_cache_key: two calls, their arguments and their keys
    retry       \* retry_with_backoff: its arguments, locals and outcome

cacheVars == <<ret, lastPut>>
enrichVars == <<heap, products, top, task, mainpc, processed, cfg, forumLog>>

rankVars == <<aheap, alist, abudget, aprefs, acall, ncalls>>

vars == <<files, now, ret, lastPut, heap, products, top, task, mainpc, processed,
          cfg, forumLog, aheap, alist, abudget, aprefs, acall, ncalls, search, keyed,
          retry>>

outsideCache == <<enrichVars, rankVars, search, keyed, retry>>
outsideEnrich == <<cacheVars, rankVars, search, keyed, retry>>
outsideEngine == <<files, now, cacheVars, enrichVars, keyed, retry>>
outsideRank == <<outsideEngine, search>>
outsideKey == <<files, now, cacheVars, enrichVars, rankVars, search, retry>>
outsideRetry == <<files, now, cacheVars, enrichVars, rankVars, search, keyed>>

(***************************************************************************)
(* Bounds and constants                                                    *)
(***************************************************************************)
\* Number of distinct cache keys of the cache specification.
MaxKeys == 1
\* Last tick of the clock.
MaxTime == 3
\* Largest review list used as a payload.
MaxPayloadLen == 1
\* config.CACHE_EXPIRY: 86400 s; one tick of the clock is 12 h.
CACHE_EXPIRY == 2

(***************************************************************************)
(* Python values and their JSON text (json.dump / json.load)               *)
(***************************************************************************)
RECURSIVE SeqsUpTo(_, _)
SeqsUpTo(S, n) ==
    IF n = 0 THEN {<<>>}
    ELSE LET shorter == SeqsUpTo(S, n - 1)
         IN  shorter \cup {Append(s, x) : s \in {t \in shorter : Len(t) = n - 1}, x \in S}

PyNone == [py |-> "NoneType"]
PyList(items) == [py |-> "list", items |-> items]

\* A review is abstracted to its rating.
ReviewVals == {1, 2}

\* The payloads the pipeline stores: lists of records (possibly empty).
Payloads == {PyList(s) : s \in SeqsUpTo(ReviewVals, MaxPayloadLen)}

\* bool(v) of a payload, as used by "if cached_data:".
Truthy(v) == v.py = "list" /\ Len(v.items) > 0

JsonDump(v) ==
    IF v.py = "list" THEN [js |-> "array", items |-> v.items]
    ELSE [js |-> "null"]

JsonLoad(j) ==
    IF j.js = "array" THEN PyList(j.items)
    ELSE PyNone

(***************************************************************************)
(* Cache files                                                             *)
(***************************************************************************)
NoFile == [fmt |-> "missing"]
\* Text json.load rejects (JSONDecodeError), e.g. a truncated write.
Garbage == [fmt |-> "garbage"]
\* Valid JSON whose top level is not an object.
NonObject == [fmt |-> "array"]

NoTs == [ts |-> "absent"]
BadTs == [ts |-> "unparsable"]
IsoTs(t) == [ts |-> "iso", t |-> t]

\* The record save_to_cache writes: {'timestamp': ..., 'data': ...}.
CacheRecord(tsField, json) == [fmt |-> "object", timestamp |-> tsField, data |-> json]

Keys == 1..MaxKeys
Times == 0..MaxTime

\* Contents a cache file may have that save_to_cache did not write whole.
ForeignFiles ==
    {Garbage, NonObject}
    \cup {CacheRecord(ts, JsonDump(p)) : ts \in {NoTs, BadTs}, p \in Payloads}

RetNone == [out |-> "None"]
RetValue(v) == IF v = PyNone THEN RetNone ELSE [out |-> "value", val |-> v]
RetRaise(e) == [out |-> "raise", exc |-> e]
RetTrue == [out |-> "True"]

\* A plausible slip: a falsy payload (an empty list) reported as a miss.
GetCachedDataFalsyMiss(f, t, expiry) ==
    IF f.fmt = "missing" THEN RetNone
    ELSE IF f.fmt = "garbage" THEN RetNone
    ELSE IF f.fmt # "object" THEN RetRaise("AttributeError")
    ELSE IF f.timestamp.ts = "absent" THEN RetNone
    ELSE IF f.timestamp.ts = "unparsable" THEN RetRaise("ValueError")
    ELSE IF t - f.timestamp.t > expiry THEN RetNone
    ELSE IF ~Truthy(JsonLoad(f.data)) THEN RetNone
    ELSE RetValue(JsonLoad(f.data))

\* get_cached_data(cache_key, cache_dir, expiry_seconds) on file content f at
\* time t.
GetCachedData(f, t, expiry) ==
    IF f.fmt = "missing" THEN RetNone                        \* os.path.exists
    ELSE IF f.fmt = "garbage" THEN RetNone                    \* JSONDecodeError caught
    ELSE IF f.fmt # "object" THEN RetRaise("AttributeError")  \* cache_data.get on a list
    ELSE IF f.timestamp.ts = "absent" THEN RetNone            \* if not timestamp
    ELSE IF f.timestamp.ts = "unparsable" THEN RetRaise("ValueError") \* fromisoformat
    ELSE IF t - f.timestamp.t > expiry THEN RetNone           \* expired
    ELSE RetValue(JsonLoad(f.data))                           \* cache_data.get('data')

\* The file save_to_cache leaves behind when it succeeds at time t.
SavedFile(data, t) == CacheRecord(IsoTs(t), JsonDump(data))

(***************************************************************************)
(* The cache specification                                                 *)
(***************************************************************************)
Untouched == [ev |-> "none"]

CacheIdle ==
    /\ ret = [op |-> "init"]
    /\ lastPut = <<>>

EnrichIdle ==
    /\ heap = <<>>
    /\ products = <<>>
    /\ top = <<>>
    /\ task = <<>>
    /\ mainpc = "idle"
    /\ processed = {}
    /\ cfg = [spec |-> "none"]
    /\ forumLog = [called |-> FALSE, written |-> FALSE]

\* generate_alternatives, lines 93-97: the result before any attempt.
NoBlock == [set |-> FALSE, budget |-> 0, preferences |-> <<>>, recommendations |-> <<>>]
NoAlternatives ==
    [increased_budget |-> NoBlock, alternative_products |-> NoBlock, suggestions |-> <<>>]

\* No analyzer or engine call has been made yet.
NoCall == [op |-> "none", out |-> <<>>, raised |-> "none", recs |-> <<>>,
           alt |-> NoAlternatives, logged |-> <<>>]

SearchIdle == search = [pc |-> "none"]

KeyIdle == keyed = [pc |-> "none"]

RetryIdle == retry = [pc |-> "none"]

RankIdle ==
    /\ aheap = <<>>
    /\ alist = <<>>
    /\ abudget = 0
    /\ aprefs = <<>>
    /\ acall = NoCall
    /\ ncalls = 0

CacheInit ==
    /\ files = [k \in Keys |-> NoFile]
    /\ now = 0
    /\ ret = [op |-> "init"]
    /\ lastPut = [k \in Keys |-> Untouched]
    /\ EnrichIdle
    /\ RankIdle
    /\ SearchIdle
    /\ KeyIdle
    /\ RetryIdle

\* save_to_cache(data, cache_key, cache_dir) succeeds.
SaveToCacheOk(k, data) ==
    /\ UNCHANGED outsideCache
    /\ files' = [files EXCEPT ![k] = SavedFile(data, now)]
    /\ ret' = [op |-> "put", key |-> k, res |-> RetTrue]
    /\ lastPut' = [lastPut EXCEPT ![k] =
                      [ev |-> "put", data |-> data, t |-> now,
                       n |-> IF @.ev = "put" THEN 2 ELSE 1]]
    /\ UNCHANGED now

\* save_to_cache fails with IOError: open() failed (file untouched) or the
\* write broke off (file truncated); CacheError is raised.
SaveToCacheFail(k, data) ==
    /\ UNCHANGED outsideCache
    /\ \E f \in {files[k], Garbage} :
          /\ files' = [files EXCEPT ![k] = f]
          /\ lastPut' = [lastPut EXCEPT ![k] =
                            IF f = files[k] THEN @ ELSE [ev |-> "foreign"]]
    /\ ret' = [op |-> "put", key |-> k, res |-> RetRaise("CacheError")]
    /\ UNCHANGED now

\* get_cached_data(cache_key, cache_dir, expiry_seconds) with a positive TTL.
GetFromCache(k, ttl) ==
    /\ UNCHANGED outsideCache
    /\ ret' = [op |-> "get", key |-> k, ttl |-> ttl,
                res |-> GetCachedData(files[k], now, ttl)]
    /\ UNCHANGED <<files, now, lastPut>>

\* Time passes.
Tick ==
    /\ UNCHANGED outsideCache
    /\ now < MaxTime
    /\ now' = now + 1
    /\ ret' = [op |-> "tick"]
    /\ UNCHANGED <<files, lastPut>>

\* Something other than a successful save_to_cache leaves a file in the
\* cache directory (an older version, a crashed writer, an editor).
ForeignWrite(k) ==
    /\ UNCHANGED outsideCache
    /\ \E f \in ForeignFiles : files' = [files EXCEPT ![k] = f]
    /\ lastPut' = [lastPut EXCEPT ![k] = [ev |-> "foreign"]]
    /\ ret' = [op |-> "foreign", key |-> k]
    /\ UNCHANGED now

CacheNext ==
    \/ \E k \in Keys, p \in Payloads : SaveToCacheOk(k, p)
    \/ \E k \in Keys, p \in Payloads : SaveToCacheFail(k, p)
    \/ \E k \in Keys, ttl \in 1..CACHE_EXPIRY : GetFromCache(k, ttl)
    \/ Tick
    \/ \E k \in Keys : ForeignWrite(k)

SpecCache == CacheInit /\ [][CacheNext]_vars

(***************************************************************************)
(* Review enrichment: DataCollector.collect_reviews                        *)
(***************************************************************************)
\* Longest products list handed to collect_reviews.
MaxProducts == 2
\* ThreadPoolExecutor(max_workers=3).
MAX_WORKERS == 3
\* collect_reviews(products, max_products=5)
MAX_PRODUCTS == 5

\* The fields of a product that enrichment reads; "" is a missing url.
Urls == {"", "u1"}
Names == {"n1", "n2"}
Bases == [url : Urls, name : Names, rated : BOOLEAN]

\* A key the dict does not hold.
Absent == [py |-> "absent"]

NewProduct(b) == [base |-> b, reviews |-> Absent, forum_reviews |-> Absent]

\* str.lower() on one character of the model's alphabet; the source tags
\* and the identifiers of the model are lower-case already.
LowerChar(c) == IF c = "A" THEN "a" ELSE IF c = "B" THEN "b" ELSE c

\* str.lower(): every character lower-cased, nothing removed.
Lower(s) == [i \in DOMAIN s |-> LowerChar(s[i])]

\* hashlib.md5(...).hexdigest(), taken as collision-free: equal digests
\* exactly for equal strings.
Md5(s) == [md5 |-> s]

\* generate_cache_key(query, platform): the md5 of "platform:query",
\* lower-cased.  A string is the sequence of its characters (an identifier
\* of the enrichment model counts as one character).
GenerateCacheKey(query, platform) == Md5(Lower(<<platform, ":">> \o query))

EcommerceKey(b) == GenerateCacheKey(<<"reviews_", b.url>>, "amazon")
ForumKey(b) == GenerateCacheKey(<<"forum_reviews_", b.name>>, "reddit")
ForumKeys == {ForumKey(b) : b \in Bases}
EnrichKeys == {EcommerceKey(b) : b \in {x \in Bases : x.url # ""}} \cup ForumKeys

\* What scraper.scrape_reviews may do: raise, or return a list.
ScrapeOutcomes == {RetRaise("ScrapingError"), RetValue(PyList(<<>>)), RetValue(PyList(<<1>>))}
\* What _generate_mock_reviews draws (random.randint, random.choice).
MockReviewLists == {PyList(<<1, 1, 1>>), PyList(<<2, 2, 2>>)}
\* What _collect_forum_reviews returns; it catches every exception itself.
ForumOutcomes == {PyList(<<>>), PyList(<<2>>)}
\* A review list found in the cache when the run starts.
CachedLists == {PyList(<<1>>)}

\* A plausible slip: the forum branch taken whatever the configuration says.
IncludeForumReviewsAlways == TRUE

\* hasattr(self.config, 'INCLUDE_FORUM_REVIEWS') and
\* self.config.INCLUDE_FORUM_REVIEWS
IncludeForumReviews == cfg.INCLUDE_FORUM_REVIEWS

\* "if cached:" on the outcome of get_cached_data.
Hit(r) == r.out = "value" /\ Truthy(r.val)

Shortlist == 1..Len(top)
\* The futures whose task a worker thread is executing / has ended.
Running == {i \in DOMAIN task : task[i].pc \notin {"queued", "returned", "raised"}}
Finished == {i \in DOMAIN task : task[i].pc \in {"returned", "raised"}}

\* A slip: a thread per submitted task.
WorkerAlwaysAvailable == TRUE

\* ThreadPoolExecutor(max_workers=3): a queued task starts only on one of
\* the pool's threads.
WorkerAvailable == Cardinality(Running) < MAX_WORKERS

NewTask == [pc |-> "queued", product |-> 0, cachedE |-> RetNone, cachedF |-> RetNone,
            scraped |-> "no", forumCacheRead |-> FALSE, forumCalled |-> FALSE,
            failedE |-> PyNone, failedF |-> PyNone]

\* products[:max_products]
Prefix(s, n) == SubSeq(s, 1, IF n < Len(s) THEN n ELSE Len(s))

EnrichInit ==
    /\ now = 0
    /\ \E present \in SUBSET EnrichKeys :
          \E l \in CachedLists :
             files = [k \in EnrichKeys |->
                         IF k \in present THEN SavedFile(l, 0) ELSE NoFile]
    /\ \E n \in 1..MaxProducts :
          /\ heap \in [1..n -> {NewProduct(b) : b \in Bases}]
          /\ products = [i \in 1..n |-> i]
          /\ \E mp \in 1..MaxProducts, forum \in BOOLEAN :
                /\ cfg = [spec |-> "enrich", max_products |-> mp,
                          INCLUDE_FORUM_REVIEWS |-> forum]
                /\ top = Prefix(products, mp)
                /\ task = [i \in 1..Len(Prefix(products, mp)) |->
                              [NewTask EXCEPT !.product = products[i]]]
    /\ mainpc = "as_completed"
    /\ processed = {}
    /\ forumLog = [called |-> FALSE, written |-> FALSE,
                   before |-> [k \in ForumKeys |-> files[k]]]
    /\ CacheIdle
    /\ RankIdle
    /\ SearchIdle
    /\ KeyIdle
    /\ RetryIdle

\* The object the future of position i was submitted with.
ProductOf(i) == task[i].product
BaseOf(i) == heap[ProductOf(i)].base

\* A worker picks up the next queued task (lines 244-259): the early return
\* and the read of the e-commerce review cache.
TaskStart(i) ==
    /\ mainpc = "as_completed"
    /\ task[i].pc = "queued"
    /\ \A j \in Shortlist : j < i => task[j].pc # "queued"
    /\ WorkerAvailable
    /\ LET b == BaseOf(i)
           r == GetCachedData(files[EcommerceKey(b)], now, CACHE_EXPIRY)
       IN  task' = [task EXCEPT ![i] =
                IF b.url = "" THEN [@ EXCEPT !.pc = "returned"]
                ELSE IF r.out = "raise" THEN [@ EXCEPT !.pc = "raised"]
                ELSE [@ EXCEPT !.pc = "readForumCache", !.cachedE = r]]
    /\ UNCHANGED <<files, now, heap, products, top, mainpc, processed, cfg,
                   forumLog, outsideEnrich>>

\* Lines 261-281: the read of the forum review cache, and the branch on
\* what is cached.
TaskReadForumCache(i) ==
    /\ task[i].pc = "readForumCache"
    /\ LET b == BaseOf(i)
           r == GetCachedData(files[ForumKey(b)], now, CACHE_EXPIRY)
           hitE == Hit(task[i].cachedE)
       IN  /\ task' = [task EXCEPT ![i] =
                IF r.out = "raise"
                THEN [@ EXCEPT !.pc = "raised", !.forumCacheRead = TRUE]
                ELSE IF hitE /\ Hit(r) /\ IncludeForumReviews
                     THEN [@ EXCEPT !.pc = "bothCached", !.cachedF = r,
                                    !.forumCacheRead = TRUE]
                ELSE IF hitE
                     THEN [@ EXCEPT !.pc = "afterEcommerce", !.cachedF = r,
                                    !.forumCacheRead = TRUE]
                ELSE [@ EXCEPT !.pc = "scrape", !.cachedF = r,
                               !.forumCacheRead = TRUE]]
           /\ heap' = IF r.out # "raise" /\ hitE
                      THEN [heap EXCEPT ![ProductOf(i)].reviews = task[i].cachedE.val]
                      ELSE heap
    /\ UNCHANGED <<files, now, products, top, mainpc, processed, cfg, forumLog,
                   outsideEnrich>>

\* Lines 275-276: both lists were cached.
TaskBothCached(i) ==
    /\ task[i].pc = "bothCached"
    /\ heap' = [heap EXCEPT ![ProductOf(i)].forum_reviews = task[i].cachedF.val]
    /\ task' = [task EXCEPT ![i].pc = "returned"]
    /\ UNCHANGED <<files, now, products, top, mainpc, processed, cfg, forumLog,
                   outsideEnrich>>

\* save_to_cache from a worker: the file it leaves, when it succeeds and
\* when it fails (untouched, or truncated).
FilesAfterSave(k, data, ok) ==
    IF ok THEN {[files EXCEPT ![k] = SavedFile(data, now)]}
    ELSE {files, [files EXCEPT ![k] = Garbage]}

\* _generate_mock_reviews(product): product_rating / 5.0 raises TypeError
\* when the rating is None.
MockOutcomes(b) ==
    IF b.rated THEN {RetValue(m) : m \in MockReviewLists}
    ELSE {RetRaise("TypeError")}

\* Lines 285-294: scrape, generate mock reviews when nothing was found,
\* save.  Any exception leads to the handler of line 296.
TaskScrape(i) ==
    /\ task[i].pc = "scrape"
    /\ \E sc \in ScrapeOutcomes, ok \in BOOLEAN :
          \E got \in (IF sc.out = "raise" THEN {sc}
                      ELSE IF Truthy(sc.val) THEN {sc}
                      ELSE MockOutcomes(BaseOf(i))) :
             LET scraped == IF sc.out = "raise" THEN "raised"
                            ELSE IF Truthy(sc.val) THEN "found" ELSE "empty"
             IN  IF got.out = "raise"
                 THEN /\ task' = [task EXCEPT ![i].pc = "scrapeFailed",
                                              ![i].scraped = scraped]
                      /\ UNCHANGED <<files, heap>>
                 ELSE /\ \E f \in FilesAfterSave(EcommerceKey(BaseOf(i)), got.val, ok) :
                            files' = f
                      /\ IF ok
                         THEN /\ heap' = [heap EXCEPT ![ProductOf(i)].reviews = got.val]
                              /\ task' = [task EXCEPT ![i].pc = "afterEcommerce",
                                                      ![i].scraped = scraped]
                         ELSE /\ heap' = heap
                              /\ task' = [task EXCEPT ![i].pc = "scrapeFailed",
                                                      ![i].scraped = scraped,
                                                      ![i].failedE = got.val]
    /\ UNCHANGED <<now, products, top, mainpc, processed, cfg, forumLog, outsideEnrich>>

\* Lines 296-309: the handler generates mock reviews and saves them; what
\* raises here leaves _collect_product_reviews.
TaskScrapeFailed(i) ==
    /\ task[i].pc = "scrapeFailed"
    /\ \E got \in MockOutcomes(BaseOf(i)), ok \in BOOLEAN :
          IF got.out = "raise"
          THEN /\ task' = [task EXCEPT ![i].pc = "raised"]
               /\ UNCHANGED <<files, heap>>
          ELSE /\ \E f \in FilesAfterSave(EcommerceKey(BaseOf(i)), got.val, ok) :
                     files' = f
               /\ IF ok
                  THEN /\ heap' = [heap EXCEPT ![ProductOf(i)].reviews = got.val]
                       /\ task' = [task EXCEPT ![i].pc = "afterEcommerce"]
                  ELSE /\ heap' = heap
                       /\ task' = [task EXCEPT ![i].pc = "raised",
                                      ![i].failedE =
                                          IF @ = PyNone THEN got.val ELSE @]
    /\ UNCHANGED <<now, products, top, mainpc, processed, cfg, forumLog, outsideEnrich>>

\* Lines 311-335: forum reviews when enabled, then return.
TaskForum(i) ==
    /\ task[i].pc = "afterEcommerce"
    /\ IF ~IncludeForumReviews
       THEN /\ task' = [task EXCEPT ![i].pc = "returned"]
            /\ UNCHANGED <<files, heap, forumLog>>
       ELSE IF Hit(task[i].cachedF)
       THEN /\ heap' = [heap EXCEPT ![ProductOf(i)].forum_reviews = task[i].cachedF.val]
            /\ task' = [task EXCEPT ![i].pc = "returned"]
            /\ UNCHANGED <<files, forumLog>>
       ELSE \E fr \in ForumOutcomes, ok \in BOOLEAN :
               /\ \E f \in FilesAfterSave(ForumKey(BaseOf(i)), fr, ok) : files' = f
               /\ forumLog' = [forumLog EXCEPT !.called = TRUE,
                               !.written = @ \/ ok \/ files' # files]
               /\ heap' = [heap EXCEPT ![ProductOf(i)].forum_reviews =
                              IF ok THEN fr ELSE PyList(<<>>)]
               /\ task' = [task EXCEPT ![i].pc = "returned",
                              ![i].forumCalled = TRUE,
                              ![i].failedF = IF ok THEN @ ELSE fr]
    /\ UNCHANGED <<now, products, top, mainpc, processed, cfg, outsideEnrich>>

\* top_products.index(product): the first position whose element equals the
\* product (the same object, or a dict equal by value); 0 for ValueError.
IndexOf(list, p) ==
    LET hits == {j \in 1..Len(list) : list[j] = p \/ heap[list[j]] = heap[p]}
    IN  IF hits = {} THEN 0 ELSE CHOOSE j \in hits : \A h \in hits : j <= h

\* A slip: future.result() outside the try block; the exception of a task
\* leaves collect_reviews.
MainProcessUncaught(i) ==
    /\ mainpc = "as_completed"
    /\ i \in Finished \ processed
    /\ processed' = processed \cup {i}
    /\ mainpc' = IF task[i].pc = "raised" THEN "raised" ELSE mainpc
    /\ LET p == ProductOf(i)
           index == IndexOf(top, p)
       IN  top' = IF task[i].pc = "returned" /\ index # 0
                  THEN [top EXCEPT ![index] = p]
                  ELSE top
    /\ UNCHANGED <<files, now, heap, products, task, cfg, forumLog, outsideEnrich>>

\* The body of the as_completed loop for one finished future (lines 221-230).
MainProcess(i) ==
    /\ mainpc = "as_completed"
    /\ i \in Finished \ processed
    /\ processed' = processed \cup {i}
    /\ LET p == ProductOf(i)
           index == IndexOf(top, p)
       IN  top' = IF task[i].pc = "returned" /\ index # 0
                  THEN [top EXCEPT ![index] = p]
                  ELSE top
    /\ UNCHANGED <<files, now, heap, products, task, mainpc, cfg, forumLog, outsideEnrich>>

\* Line 232: every future was handled, the executor has shut down.
MainReturn ==
    /\ mainpc = "as_completed"
    /\ processed = Shortlist
    /\ mainpc' = "returned"
    /\ UNCHANGED <<files, now, heap, products, top, task, processed, cfg, forumLog,
                   outsideEnrich>>

EnrichNext ==
    \/ \E i \in Shortlist : TaskStart(i)
    \/ \E i \in Shortlist : TaskReadForumCache(i)
    \/ \E i \in Shortlist : TaskBothCached(i)
    \/ \E i \in Shortlist : TaskScrape(i)
    \/ \E i \in Shortlist : TaskScrapeFailed(i)
    \/ \E i \in Shortlist : TaskForum(i)
    \/ \E i \in Shortlist : MainProcess(i)
    \/ MainReturn

SpecEnrich == EnrichInit /\ [][EnrichNext]_vars

(***************************************************************************)
(* SpecKey: generate_cache_key called twice with the same source tag.      *)
(***************************************************************************)
\* Longest query of the key specification, in characters.
MaxQueryLen == 2

QueryChars == {"a", "A", "b", " "}
Queries == UNION {[1..n -> QueryChars] : n \in 0..MaxQueryLen}
Platforms == {"amazon", "reddit"}

KeyInit ==
    /\ \E platform \in Platforms, q1 \in Queries, q2 \in Queries :
          keyed = [pc |-> "args", platform |-> platform, query |-> q1, other |-> q2,
                   key |-> <<>>, otherKey |-> <<>>]
    /\ files = <<>>
    /\ now = 0
    /\ CacheIdle
    /\ EnrichIdle
    /\ RankIdle
    /\ SearchIdle
    /\ RetryIdle

\* The first request: generate_cache_key(query, platform).
KeyFirst ==
    /\ keyed.pc = "args"
    /\ keyed' = [keyed EXCEPT !.pc = "first",
                              !.key = GenerateCacheKey(keyed.query, keyed.platform)]
    /\ UNCHANGED outsideKey

\* The second request, same source tag: generate_cache_key(other, platform).
KeySecond ==
    /\ keyed.pc = "first"
    /\ keyed' = [keyed EXCEPT !.pc = "second",
                              !.otherKey = GenerateCacheKey(keyed.other, keyed.platform)]
    /\ UNCHANGED outsideKey

KeyNext == KeyFirst \/ KeySecond

SpecKey == KeyInit /\ [][KeyNext]_vars

(***************************************************************************)
(* SpecRetry: retry_with_backoff(func, max_retries, initial_delay,         *)
(* backoff_factor), the loop WebScraper._make_request runs its request in. *)
(***************************************************************************)
\* Largest max_retries of the retry specification.
MaxRetries == 3

\* What one call of func does: return the response text, or raise.
FuncOutcomes ==
    {[out |-> "value", val |-> v] : v \in {"text1", "text2"}}
    \cup {RetRaise(e) : e \in {"NetworkError1", "NetworkError2"}}

\* retries = 0; delay = initial_delay
RetryInit ==
    /\ \E max_retries \in 0..MaxRetries, initial_delay \in {1, 2},
          backoff_factor \in {2, 3} :
          retry = [pc |-> "while", max_retries |-> max_retries,
                   initial_delay |-> initial_delay,
                   backoff_factor |-> backoff_factor,
                   retries |-> 0, delay |-> initial_delay,
                   calls |-> <<>>, slept |-> <<>>, ret |-> RetNone]
    /\ files = <<>>
    /\ now = 0
    /\ CacheIdle
    /\ EnrichIdle
    /\ RankIdle
    /\ SearchIdle
    /\ KeyIdle

\* One test of "while retries < max_retries" and, inside the loop, one call
\* of func: its value is returned; its exception counts a retry and is
\* re-raised when retries >= max_retries.  When the test fails the function
\* ends without a return statement.
RetryAttempt ==
    /\ retry.pc = "while"
    /\ IF retry.retries < retry.max_retries
       THEN \E o \in FuncOutcomes :
               retry' = IF o.out = "value"
                        THEN [retry EXCEPT !.pc = "returned", !.ret = o,
                                           !.calls = Append(@, o)]
                        ELSE IF retry.retries + 1 >= retry.max_retries
                        THEN [retry EXCEPT !.pc = "raised", !.ret = o,
                                           !.retries = @ + 1,
                                           !.calls = Append(@, o)]
                        ELSE [retry EXCEPT !.pc = "sleep", !.retries = @ + 1,
                                           !.calls = Append(@, o)]
       ELSE retry' = [retry EXCEPT !.pc = "returned", !.ret = RetNone]
    /\ UNCHANGED outsideRetry

\* time.sleep(delay); delay *= backoff_factor
RetrySleep ==
    /\ retry.pc = "sleep"
    /\ retry' = [retry EXCEPT !.pc = "while", !.slept = Append(@, retry.delay),
                              !.delay = @ * retry.backoff_factor]
    /\ UNCHANGED outsideRetry

RetryNext == RetryAttempt \/ RetrySleep

SpecRetry == RetryInit /\ [][RetryNext]_vars

(***************************************************************************)
(* SpecPool: the executor of collect_reviews on shortlists longer than the *)
(* pool.  The futures are submitted one by one while the workers already   *)
(* run; the body of a task (_collect_product_reviews) is taken as one step *)
(* that returns the product with its reviews, or raises.                   *)
(***************************************************************************)
\* Longest products list of the executor specification.
MaxPoolProducts == 5

PoolBases == {[url |-> "u1", name |-> "n1", rated |-> TRUE],
              [url |-> "", name |-> "n1", rated |-> TRUE]}

PoolInit ==
    /\ \E n \in 1..MaxPoolProducts :
          /\ heap \in [1..n -> {NewProduct(b) : b \in PoolBases}]
          /\ products = [i \in 1..n |-> i]
    /\ cfg = [spec |-> "pool", max_products |-> MAX_PRODUCTS,
              INCLUDE_FORUM_REVIEWS |-> FALSE]
    /\ top = Prefix(products, MAX_PRODUCTS)
    /\ task = <<>>
    /\ mainpc = "submit"
    /\ processed = {}
    /\ forumLog = [called |-> FALSE, written |-> FALSE]
    /\ files = <<>>
    /\ now = 0
    /\ CacheIdle
    /\ RankIdle
    /\ SearchIdle
    /\ KeyIdle
    /\ RetryIdle

\* Lines 215-218: the dict comprehension submits the next product of
\* top_products; after the last one the as_completed loop begins.
PoolSubmit ==
    /\ mainpc = "submit"
    /\ task' = Append(task, [NewTask EXCEPT !.product = top[Len(task) + 1]])
    /\ mainpc' = IF Len(task) + 1 = Len(top) THEN "as_completed" ELSE "submit"
    /\ UNCHANGED <<files, now, heap, products, top, processed, cfg, forumLog,
                   outsideEnrich>>

\* A worker thread takes the oldest queued task.
PoolStart(i) ==
    /\ task[i].pc = "queued"
    /\ \A j \in DOMAIN task : j < i => task[j].pc # "queued"
    /\ WorkerAvailable
    /\ task' = [task EXCEPT ![i].pc = "running"]
    /\ UNCHANGED <<files, now, heap, products, top, mainpc, processed, cfg, forumLog,
                   outsideEnrich>>

\* _collect_product_reviews returns (early for a product without url, else
\* with its reviews attached).
PoolReturn(i) ==
    /\ task[i].pc = "running"
    /\ task' = [task EXCEPT ![i].pc = "returned"]
    /\ heap' = IF heap[task[i].product].base.url = "" THEN heap
               ELSE [heap EXCEPT ![task[i].product].reviews = PyList(<<1>>)]
    /\ UNCHANGED <<files, now, products, top, mainpc, processed, cfg, forumLog,
                   outsideEnrich>>

\* _collect_product_reviews raises (only past its early return).
PoolRaise(i) ==
    /\ task[i].pc = "running"
    /\ heap[task[i].product].base.url # ""
    /\ task' = [task EXCEPT ![i].pc = "raised"]
    /\ UNCHANGED <<files, now, heap, products, top, mainpc, processed, cfg, forumLog,
                   outsideEnrich>>

PoolNext ==
    \/ PoolSubmit
    \/ \E i \in DOMAIN task : PoolStart(i)
    \/ \E i \in DOMAIN task : PoolReturn(i)
    \/ \E i \in DOMAIN task : PoolRaise(i)
    \/ \E i \in DOMAIN task : MainProcess(i)
    \/ MainReturn

SpecPool == PoolInit /\ [][PoolNext]_vars

(***************************************************************************)
(* ProductAnalyzer                                                         *)
(*                                                                         *)
(* Strings are sequences of words; "a in b" is "a is a contiguous run of   *)
(* words of b"; letter case is not modelled.  Scores are kept exactly, in  *)
(* units of 1/SCORE_SCALE; ratings in tenths of a star.                    *)
(***************************************************************************)
\* Longest products list handed to the analyzer.
MaxRankProducts == 4
\* Number of analyzer / engine calls made on the same product objects.
MaxCalls == 2
\* config.BUDGET_FLEXIBILITY = 0.1, in percent.
BUDGET_FLEXIBILITY_PCT == 10
\* config.MIN_REVIEWS
MIN_REVIEWS == 10
\* config.TOP_RECOMMENDATIONS
TOP_RECOMMENDATIONS == 5
\* filter_by_budget: "at least 3 products" (lines 61 and 65).
MIN_POOL == 3
\* generate_alternatives: ranked_products[:3].
MAX_ALTERNATIVES == 3
\* extract_key_features: unique_features[:5].
MAX_KEY_FEATURES == 5
\* Scores are integers in units of 1/SCORE_SCALE.
SCORE_SCALE == 90000
\* price is None / rating is None.
NoPrice == -1
NoRating == -1
\* 'review_count': None
NoCount == -1

Range(s) == {s[i] : i \in 1..Len(s)}
Front(s) == SubSeq(s, 1, Len(s) - 1)
Last(s) == s[Len(s)]
Max(a, b) == IF a >= b THEN a ELSE b

\* needle in haystack
Contains(haystack, needle) ==
    \E i \in 1..(Len(haystack) - Len(needle) + 1) :
        SubSeq(haystack, i, i + Len(needle) - 1) = needle

\* ' '.join(features)
RECURSIVE Join(_)
Join(fs) == IF fs = <<>> THEN <<>> ELSE Head(fs) \o Join(Tail(fs))

RECURSIVE SumOver(_, _)
SumOver(s, f) == IF s = <<>> THEN 0 ELSE f[Head(s)] + SumOver(Tail(s), f)

\* x put behind the n first elements of s.
InsertAfter(s, n, x) == SubSeq(s, 1, n) \o <<x>> \o SubSeq(s, n + 1, Len(s))

\* A slip: the list left in the order it had.
SortLeftAsIs(s, k) == s

\* list.sort(key=...) and sorted(key=..., reverse=True) are stable; k maps
\* each element to its key.
RECURSIVE StableSortAsc(_, _)
StableSortAsc(s, k) ==
    IF s = <<>> THEN <<>>
    ELSE LET sorted == StableSortAsc(Front(s), k)
         IN  InsertAfter(sorted,
                 Cardinality({i \in 1..Len(sorted) : k[sorted[i]] <= k[Last(s)]}),
                 Last(s))

RECURSIVE StableSortDesc(_, _)
StableSortDesc(s, k) ==
    IF s = <<>> THEN <<>>
    ELSE LET sorted == StableSortDesc(Front(s), k)
         IN  InsertAfter(sorted,
                 Cardinality({i \in 1..Len(sorted) : k[sorted[i]] >= k[Last(s)]}),
                 Last(s))

\* A product as the collector hands it over; the derived fields are unset.
AProduct(name, features, price, rating10, review_count) ==
    [name |-> name, features |-> features, price |-> price,
     rating10 |-> rating10, review_count |-> review_count,
     over_budget |-> FALSE, preference_score |-> 0, matched_preferences |-> <<>>,
     review_score |-> 0, price_score |-> 0, combined_score |-> 0]

\* filter_by_budget, lines 47-58: the two pools.
WithinBudget(p, budget) == p.price # NoPrice /\ p.price <= budget
WithinFlexibility(p, budget) ==
    /\ p.price # NoPrice
    /\ p.price > budget
    /\ 100 * p.price <= budget * (100 + BUDGET_FLEXIBILITY_PCT)

\* A slip: over-budget products are added only when nothing is in budget.
BackfillOnlyWhenEmpty(h, filtered, over) ==
    IF Len(filtered) = 0 /\ over # <<>>
    THEN filtered \o Prefix(StableSortAsc(over, [o \in Range(over) |-> h[o].price]),
                            MIN_POOL - Len(filtered))
    ELSE filtered

\* filter_by_budget, lines 60-68: the products returned.
Backfill(h, filtered, over) ==
    IF Len(filtered) < MIN_POOL /\ over # <<>>
    THEN filtered \o Prefix(StableSortAsc(over, [o \in Range(over) |-> h[o].price]),
                            MIN_POOL - Len(filtered))
    ELSE filtered

\* filter_by_budget(products, budget): the products (object references) it
\* returns and the heap it leaves.
FilterByBudget(h, ids, budget) ==
    [h |-> [o \in DOMAIN h |->
               IF o \in Range(ids) /\ WithinFlexibility(h[o], budget)
               THEN [h[o] EXCEPT !.over_budget = TRUE]
               ELSE h[o]],
     out |-> Backfill(h, SelectSeq(ids, LAMBDA o : WithinBudget(h[o], budget)),
                      SelectSeq(ids, LAMBDA o : WithinFlexibility(h[o], budget)))]

\* name + ' ' + ' '.join(features)
ProductText(p) == p.name \o Join(p.features)

\* The score one preference adds, doubled: 2 for a verbatim match, 1 when
\* at least half the words of a multi-word preference appear, else 0.
PreferencePoints(text, pref) ==
    IF Contains(text, pref) THEN 2
    ELSE IF Len(pref) > 1
            /\ 2 * Cardinality({i \in 1..Len(pref) : Contains(text, <<pref[i]>>)}) >= Len(pref)
         THEN 1
    ELSE 0

\* score_by_preferences, lines 93-124, for one product.
PreferenceScore(p, prefs) ==
    (SCORE_SCALE \div 2)
    * SumOver(prefs, [q \in Range(prefs) |-> PreferencePoints(ProductText(p), q)])
MatchedPreferences(p, prefs) ==
    SelectSeq(prefs, LAMBDA q : PreferencePoints(ProductText(p), q) > 0)

\* score_by_preferences(products, preferences)
ScoreByPreferences(h, ids, prefs) ==
    [h |-> [o \in DOMAIN h |->
               IF o \in Range(ids)
               THEN [h[o] EXCEPT !.preference_score = PreferenceScore(h[o], prefs),
                                 !.matched_preferences = MatchedPreferences(h[o], prefs)]
               ELSE h[o]],
     out |-> ids]

\* min(1, log10(review_count) / 3) in thirds, for the review counts of the
\* model (powers of ten and counts below MIN_REVIEWS).
ReviewBonusThirds(review_count) ==
    IF review_count >= 1000 THEN 3
    ELSE IF review_count >= 100 THEN 2
    ELSE IF review_count >= 10 THEN 1
    ELSE 0

\* calculate_review_score(product)
CalculateReviewScore(p) ==
    IF p.rating10 = NoRating \/ p.review_count < MIN_REVIEWS THEN 0
    ELSE (SCORE_SCALE \div 10) * p.rating10
         + (SCORE_SCALE \div 3) * ReviewBonusThirds(p.review_count)

\* calculate_review_score, line 143: with a rating and a review_count of
\* None the comparison None < min_reviews raises TypeError.
ScoreRaises(p) == p.rating10 # NoRating /\ p.review_count = NoCount

\* rank_products, lines 180-209: the products the loop scores before
\* calculate_review_score raises; all of them when it never does.
ScoredBeforeRaise(h, out) ==
    IF \E i \in 1..Len(out) : ScoreRaises(h[out[i]])
    THEN Prefix(out, (CHOOSE i \in 1..Len(out) :
                         /\ ScoreRaises(h[out[i]])
                         /\ \A j \in 1..(i - 1) : ~ScoreRaises(h[out[j]])) - 1)
    ELSE out

\* A slip: the over-budget penalty with the wrong sign.
PriceScoreRewardingOverBudget(price, budget) ==
    IF price <= 0 THEN 0
    ELSE IF price <= budget
         THEN SCORE_SCALE - ((SCORE_SCALE \div 2) * price) \div budget
    ELSE Max(0, (SCORE_SCALE \div 2) + (2 * SCORE_SCALE * (price - budget)) \div budget)

\* rank_products, lines 186-197: the price score.
PriceScore(price, budget) ==
    IF price <= 0 THEN 0
    ELSE IF price <= budget
         THEN SCORE_SCALE - ((SCORE_SCALE \div 2) * price) \div budget
    ELSE Max(0, (SCORE_SCALE \div 2) - (2 * SCORE_SCALE * (price - budget)) \div budget)

\* rank_products, lines 201-205.
CombinedScore(preference_score, review_score, price_score) ==
    preference_score * 2 + (review_score * 8) \div 10 + price_score * 2

\* rank_products, lines 207-209: the scores stored on the product.
WithScores(p, review_score, price_score) ==
    [p EXCEPT !.review_score = review_score,
              !.price_score = price_score,
              !.combined_score =
                  CombinedScore(p.preference_score, review_score, price_score)]

\* A slip: the ranking sorted without keeping ties in place.
SortRankedTiesReversed(h, ids) ==
    StableSortDesc([i \in 1..Len(ids) |-> ids[Len(ids) + 1 - i]],
                   [o \in Range(ids) |-> h[o].combined_score])

\* rank_products, lines 212-216: sorted(..., reverse=True).
SortRanked(h, ids) ==
    StableSortDesc(ids, [o \in Range(ids) |-> h[o].combined_score])

\* rank_products, lines 180-219, on the products score_by_preferences
\* returned.
RankScoredUpTo(s, reached, budget) ==
    LET scored == [o \in DOMAIN s.h |->
                      IF o \in Range(reached)
                      THEN WithScores(s.h[o], CalculateReviewScore(s.h[o]),
                                      PriceScore(s.h[o].price, budget))
                      ELSE s.h[o]]
    IN  IF reached = s.out
        THEN [h |-> scored, out |-> SortRanked(scored, s.out), raised |-> "none"]
        ELSE [h |-> scored, out |-> <<>>, raised |-> "TypeError"]

RankScored(s, budget) == RankScoredUpTo(s, ScoredBeforeRaise(s.h, s.out), budget)

\* rank_products, line 177, on the products filter_by_budget returned.
RankFiltered(f, budget, prefs) ==
    RankScored(ScoreByPreferences(f.h, f.out, prefs), budget)

\* rank_products(products, budget, preferences)
RankProducts(h, ids, budget, prefs) ==
    RankFiltered(FilterByBudget(h, ids, budget), budget, prefs)

\* The words of a name that the specification regex picks out
\* (\d+(GB|TB|MP|GHz|inch|cm|mm|mAh)); the names of the model carry no
\* parenthesised part.
SpecWords == {"8GB"}
NameSpecs(name) ==
    [i \in 1..Len(SelectSeq(name, LAMBDA w : w \in SpecWords)) |->
        <<SelectSeq(name, LAMBDA w : w \in SpecWords)[i]>>]

\* extract_key_features, lines 232-249: the product's features list after
\* the three extend calls.
ExtendedFeatures(p) == p.features \o NameSpecs(p.name) \o p.matched_preferences

\* extract_key_features, lines 251-255.
AppendUnique(u, x) == IF x # <<>> /\ x \notin Range(u) THEN Append(u, x) ELSE u
RECURSIVE Unique(_)
Unique(fs) == IF fs = <<>> THEN <<>> ELSE AppendUnique(Unique(Front(fs)), Last(fs))

\* extract_key_features, lines 259-268.
PreferenceMatchScore(feature, prefs) ==
    SumOver(prefs, [q \in Range(prefs) |->
                       IF q = feature THEN 2
                       ELSE IF Contains(feature, q) \/ Contains(q, feature) THEN 1
                       ELSE 0])

\* extract_key_features, lines 257-274.
Prioritized(unique, prefs) ==
    Prefix(IF prefs # <<>>
           THEN StableSortDesc(unique,
                    [f \in Range(unique) |-> PreferenceMatchScore(f, prefs)])
           ELSE unique,
           MAX_KEY_FEATURES)

\* extract_key_features(product, preferences): the key features returned.
ExtractKeyFeatures(p, prefs) == Prioritized(Unique(ExtendedFeatures(p)), prefs)

\* explain_recommendation(product, budget, preferences): the sentences of
\* the explanation, each with the number it quotes.
ExplainRecommendation(p, budget, prefs) ==
    (IF p.price <= budget
     THEN <<[say |-> "within_budget", n |-> budget]>>
     ELSE <<[say |-> "over_budget_by", n |-> p.price - budget]>>)
    \o (IF p.rating10 # NoRating /\ p.rating10 # 0 /\ p.review_count >= MIN_REVIEWS
        THEN <<[say |-> "highly_rated", n |-> p.rating10]>>
        ELSE <<>>)
    \o (IF p.matched_preferences # <<>>
        THEN <<[say |-> "matches_preferences", n |-> Len(p.matched_preferences)]>>
        ELSE <<>>)

(***************************************************************************)
(* RecommendationEngine                                                    *)
(***************************************************************************)
\* One pass of the loop of generate_recommendations (lines 59-73) and of
\* generate_alternatives (lines 119-128, 156-165).
Recommendation(p, o, budget, prefs) ==
    [product |-> o,
     key_features |-> ExtractKeyFeatures(p, prefs),
     explanation |->
         ExplainRecommendation([p EXCEPT !.features = ExtendedFeatures(p)],
                               budget, prefs)]

PrependRecommendation(rec, rest) == [h |-> rest.h, out |-> <<rec>> \o rest.out]

RECURSIVE BuildRecommendations(_, _, _, _)
BuildRecommendations(h, ids, budget, prefs) ==
    IF ids = <<>> THEN [h |-> h, out |-> <<>>]
    ELSE PrependRecommendation(
             Recommendation(h[Head(ids)], Head(ids), budget, prefs),
             BuildRecommendations(
                 [h EXCEPT ![Head(ids)].features = ExtendedFeatures(h[Head(ids)])],
                 Tail(ids), budget, prefs))

\* A slip: every ranked product recommended, the top_count forgotten.
RecommendRankedAll(r, budget, prefs) ==
    IF r.raised # "none"
    THEN [h |-> r.h, raised |-> r.raised, out |-> <<>>]
    ELSE IF r.out = <<>>
    THEN [h |-> r.h, raised |-> "NoResultsError: none within budget", out |-> <<>>]
    ELSE [raised |-> "none"] @@ BuildRecommendations(r.h, r.out, budget, prefs)

\* generate_recommendations, lines 50-77, on the ranking.
RecommendRanked(r, budget, prefs) ==
    IF r.raised # "none"
    THEN [h |-> r.h, raised |-> r.raised, out |-> <<>>]
    ELSE IF r.out = <<>>
    THEN [h |-> r.h, raised |-> "NoResultsError: none within budget", out |-> <<>>]
    ELSE [raised |-> "none"]
         @@ BuildRecommendations(r.h, Prefix(r.out, TOP_RECOMMENDATIONS), budget, prefs)

\* generate_recommendations(products, budget, preferences)
GenerateRecommendations(h, ids, budget, prefs) ==
    IF ids = <<>>
    THEN [h |-> h, raised |-> "NoResultsError: no products found", out |-> <<>>]
    ELSE RecommendRanked(RankProducts(h, ids, budget, prefs), budget, prefs)

\* budget * 1.2, for budgets that are multiples of 5.
IncreasedBudget(budget) == (budget * 12) \div 10

\* A slip: the attempts keep every ranked product.
AlternativesLimitNone == MaxRankProducts + 2

\* generate_alternatives: ranked_products[:3]
AlternativesLimit == MAX_ALTERNATIVES

\* No attempt made (budget not positive, fewer than two preferences).
NotAttempted(h) == [ok |-> FALSE, caught |-> FALSE, h |-> h, out |-> <<>>]

\* generate_alternatives, lines 114-141 and 151-178: one attempt, on its
\* ranking; explanations quote the budget of the request.  An exception of
\* rank_products is caught and logged by the attempt's except clause.
Attempt(r, budget, prefs) ==
    IF r.raised # "none"
    THEN [ok |-> FALSE, caught |-> TRUE, h |-> r.h, out |-> <<>>]
    ELSE IF r.out # <<>>
    THEN [ok |-> TRUE, caught |-> FALSE]
         @@ BuildRecommendations(r.h, Prefix(r.out, AlternativesLimit), budget, prefs)
    ELSE NotAttempted(r.h)

\* generate_alternatives, lines 106-141.
IncreasedBudgetAttempt(h, ids, budget, prefs) ==
    IF budget > 0
    THEN Attempt(RankProducts(h, ids, IncreasedBudget(budget), prefs), budget, prefs)
    ELSE NotAttempted(h)

\* A slip: the reduced preferences ranked against the increased budget.
ReducedPreferencesAttemptIncreasedBudget(h, ids, budget, prefs) ==
    IF Len(prefs) > 1
    THEN Attempt(RankProducts(h, ids, IncreasedBudget(budget), <<prefs[1]>>),
                 budget, <<prefs[1]>>)
    ELSE NotAttempted(h)

\* generate_alternatives, lines 143-178.
ReducedPreferencesAttempt(h, ids, budget, prefs) ==
    IF Len(prefs) > 1
    THEN Attempt(RankProducts(h, ids, budget, <<prefs[1]>>), budget, <<prefs[1]>>)
    ELSE NotAttempted(h)

\* A slip: the generic suggestions added when either block is missing.
AlternativesResultGenericEither(a1, a2, budget, prefs) ==
    [h |-> a2.h,
     raised |-> "none",
     logged |-> (IF a1.caught THEN <<"increased_budget">> ELSE <<>>)
                \o (IF a2.caught THEN <<"reduced_preferences">> ELSE <<>>),
     out |->
       [increased_budget |->
            IF a1.ok
            THEN [set |-> TRUE, budget |-> IncreasedBudget(budget),
                  preferences |-> <<>>, recommendations |-> a1.out]
            ELSE NoBlock,
        alternative_products |->
            IF a2.ok
            THEN [set |-> TRUE, budget |-> 0,
                  preferences |-> <<prefs[1]>>, recommendations |-> a2.out]
            ELSE NoBlock,
        suggestions |->
            (IF a1.ok THEN <<"increase_budget">> ELSE <<>>)
            \o (IF a2.ok THEN <<"most_important_preference">> ELSE <<>>)
            \o (IF ~a1.ok \/ ~a2.ok
                THEN <<"different_category", "wait_for_sales">>
                ELSE <<>>)]]

\* generate_alternatives, lines 130-190: the result assembled from the two
\* attempts.
AlternativesResult(a1, a2, budget, prefs) ==
    [h |-> a2.h,
     raised |-> "none",
     logged |-> (IF a1.caught THEN <<"increased_budget">> ELSE <<>>)
                \o (IF a2.caught THEN <<"reduced_preferences">> ELSE <<>>),
     out |->
       [increased_budget |->
            IF a1.ok
            THEN [set |-> TRUE, budget |-> IncreasedBudget(budget),
                  preferences |-> <<>>, recommendations |-> a1.out]
            ELSE NoBlock,
        alternative_products |->
            IF a2.ok
            THEN [set |-> TRUE, budget |-> 0,
                  preferences |-> <<prefs[1]>>, recommendations |-> a2.out]
            ELSE NoBlock,
        suggestions |->
            (IF a1.ok THEN <<"increase_budget">> ELSE <<>>)
            \o (IF a2.ok THEN <<"most_important_preference">> ELSE <<>>)
            \o (IF ~a1.ok /\ ~a2.ok
                THEN <<"different_category", "wait_for_sales">>
                ELSE <<>>)]]

\* A slip: the increased-budget attempt without its try block.
AfterIncreasedBudgetUncaught(a1, ids, budget, prefs) ==
    IF a1.caught
    THEN [h |-> a1.h, raised |-> "TypeError", logged |-> <<>>, out |-> NoAlternatives]
    ELSE AlternativesResult(a1, ReducedPreferencesAttempt(a1.h, ids, budget, prefs),
                            budget, prefs)

AfterIncreasedBudget(a1, ids, budget, prefs) ==
    AlternativesResult(a1, ReducedPreferencesAttempt(a1.h, ids, budget, prefs),
                       budget, prefs)

\* generate_alternatives(products, budget, preferences)
GenerateAlternatives(h, ids, budget, prefs) ==
    IF ids = <<>>
    THEN [h |-> h, raised |-> "none", logged |-> <<>>,
          out |-> [NoAlternatives EXCEPT !.suggestions = <<"different_search_term">>]]
    ELSE AfterIncreasedBudget(IncreasedBudgetAttempt(h, ids, budget, prefs),
                              ids, budget, prefs)

(***************************************************************************)
(* SpecRank: the analyzer and the engine called on one products list.      *)
(***************************************************************************)
Budgets == {100}
PreferenceLists == {<<>>, <<<<"gaming">>>>, <<<<"gaming">>, <<"long", "battery">>>>}

\* Products as the collector returns them: name, features, price, rating in
\* tenths of a star, review_count.
Catalog ==
    {AProduct(<<"gaming", "laptop", "8GB">>, <<<<"backlit", "keyboard">>>>, 60, 45, 100),
     AProduct(<<"office", "laptop">>, <<>>, 100, NoRating, 0),
     AProduct(<<"laptop">>, <<>>, 102, 41, 1000),
     AProduct(<<"laptop">>, <<>>, 104, 42, 1000),
     AProduct(<<"laptop">>, <<>>, 104, 41, 1000),
     AProduct(<<"gaming", "laptop">>, <<>>, 104, 41, 1000),
     AProduct(<<"laptop">>, <<>>, 115, 40, 10),
     AProduct(<<"laptop">>, <<<<"battery">>>>, 125, 42, 5),
     AProduct(<<"laptop">>, <<>>, 140, 40, 10),
     AProduct(<<"gaming", "laptop">>, <<>>, NoPrice, 42, 1000),
     AProduct(<<"laptop">>, <<>>, 0, NoRating, 0)}

RankInit ==
    /\ \E n \in 0..MaxRankProducts :
          /\ aheap \in [1..n -> Catalog]
          /\ alist = [i \in 1..n |-> i]
    /\ abudget \in Budgets
    /\ aprefs \in PreferenceLists
    /\ acall = NoCall
    /\ ncalls = 0
    /\ files = <<>>
    /\ now = 0
    /\ CacheIdle
    /\ EnrichIdle
    /\ SearchIdle
    /\ KeyIdle
    /\ RetryIdle

CallFilterByBudget ==
    /\ ncalls < MaxCalls
    /\ \E r \in {FilterByBudget(aheap, alist, abudget)} :
          /\ aheap' = r.h
          /\ acall' = [NoCall EXCEPT !.op = "filter_by_budget", !.out = r.out]
    /\ ncalls' = ncalls + 1
    /\ UNCHANGED <<alist, abudget, aprefs, outsideRank>>

CallRankProducts ==
    /\ ncalls < MaxCalls
    /\ \E r \in {RankProducts(aheap, alist, abudget, aprefs)} :
          /\ aheap' = r.h
          /\ acall' = [NoCall EXCEPT !.op = "rank_products", !.out = r.out,
                                     !.raised = r.raised]
    /\ ncalls' = ncalls + 1
    /\ UNCHANGED <<alist, abudget, aprefs, outsideRank>>

CallGenerateRecommendations ==
    /\ ncalls < MaxCalls
    /\ \E r \in {GenerateRecommendations(aheap, alist, abudget, aprefs)} :
          /\ aheap' = r.h
          /\ acall' = [NoCall EXCEPT !.op = "generate_recommendations",
                                     !.raised = r.raised, !.recs = r.out]
    /\ ncalls' = ncalls + 1
    /\ UNCHANGED <<alist, abudget, aprefs, outsideRank>>

CallGenerateAlternatives ==
    /\ ncalls < MaxCalls
    /\ \E r \in {GenerateAlternatives(aheap, alist, abudget, aprefs)} :
          /\ aheap' = r.h
          /\ acall' = [NoCall EXCEPT !.op = "generate_alternatives", !.alt = r.out,
                                     !.raised = r.raised, !.logged = r.logged]
    /\ ncalls' = ncalls + 1
    /\ UNCHANGED <<alist, abudget, aprefs, outsideRank>>

RankNext ==
    \/ CallFilterByBudget
    \/ CallRankProducts
    \/ CallGenerateRecommendations
    \/ CallGenerateAlternatives

SpecRank == RankInit /\ [][RankNext]_vars

(***************************************************************************)
(* SpecTop: generate_recommendations on lists longer than top_count.       *)
(***************************************************************************)
\* Longest products list of the top-count specification.
MaxTopProducts == 6

TopCatalog ==
    {AProduct(<<"gaming", "laptop">>, <<>>, 60, 45, 100),
     AProduct(<<"laptop">>, <<>>, 90, 41, 1000),
     AProduct(<<"office", "laptop">>, <<>>, 100, NoRating, 0)}

TopInit ==
    /\ \E n \in 0..MaxTopProducts :
          /\ aheap \in [1..n -> TopCatalog]
          /\ alist = [i \in 1..n |-> i]
    /\ abudget \in Budgets
    /\ aprefs \in PreferenceLists
    /\ acall = NoCall
    /\ ncalls = 0
    /\ files = <<>>
    /\ now = 0
    /\ CacheIdle
    /\ EnrichIdle
    /\ SearchIdle
    /\ KeyIdle
    /\ RetryIdle

TopNext ==
    \/ CallRankProducts
    \/ CallGenerateRecommendations

SpecTop == TopInit /\ [][TopNext]_vars

(***************************************************************************)
(* SpecAlt: the engine called on product lists as the platform cache can   *)
(* hand them over (_collect_from_platform returns cached data as read):    *)
(* a product may carry a rating and a review_count of None.                *)
(***************************************************************************)
\* Longest products list of the alternatives specification.
MaxAltProducts == 3

AltCatalog ==
    {AProduct(<<"gaming", "laptop", "8GB">>, <<>>, 60, 45, 100),
     AProduct(<<"laptop">>, <<<<"battery">>>>, 104, 41, 1000),
     AProduct(<<"laptop">>, <<>>, 125, 42, 10),
     AProduct(<<"laptop">>, <<>>, 90, 40, NoCount),
     AProduct(<<"gaming", "laptop">>, <<>>, 118, 40, NoCount),
     AProduct(<<"gaming", "laptop">>, <<<<"gaming", "long", "battery">>>>, 80, 40, 100)}

\* The preference lists of the request, one with a preference of several
\* words first.
AltPreferenceLists ==
    PreferenceLists \cup {<<<<"long", "battery">>, <<"gaming">>>>}

AltInit ==
    /\ \E n \in 0..MaxAltProducts :
          /\ aheap \in [1..n -> AltCatalog]
          /\ alist = [i \in 1..n |-> i]
    /\ abudget \in Budgets
    /\ aprefs \in AltPreferenceLists
    /\ acall = NoCall
    /\ ncalls = 0
    /\ files = <<>>
    /\ now = 0
    /\ CacheIdle
    /\ EnrichIdle
    /\ SearchIdle
    /\ KeyIdle
    /\ RetryIdle

AltNext ==
    \/ CallGenerateRecommendations
    \/ CallGenerateAlternatives

SpecAlt == AltInit /\ [][AltNext]_vars


(***************************************************************************)
(* SpecSearch: ShoppingAssistant.search, one request from the input to the *)
(* text returned.  Texts typed by the user are sequences of characters.    *)
(***************************************************************************)
\* Longest product list collect_data returns.
MaxSearchProducts == 2

PyStr(chars) == [py |-> "str", chars |-> chars]
PyFloat(v) == [py |-> "float", v |-> v]

Digits == [c \in {"0", "1", "2", "3", "4", "5", "6", "7", "8", "9"} |->
              CASE c = "0" -> 0 [] c = "1" -> 1 [] c = "2" -> 2 [] c = "3" -> 3
                [] c = "4" -> 4 [] c = "5" -> 5 [] c = "6" -> 6 [] c = "7" -> 7
                [] c = "8" -> 8 [] c = "9" -> 9]

\* str.strip()
RECURSIVE LStrip(_)
LStrip(chars) ==
    IF chars # <<>> /\ Head(chars) = " " THEN LStrip(Tail(chars)) ELSE chars
RECURSIVE RStrip(_)
RStrip(chars) ==
    IF chars # <<>> /\ Last(chars) = " " THEN RStrip(Front(chars)) ELSE chars
Strip(chars) == RStrip(LStrip(chars))

\* _validate_product(product): the InputError raised, or "none".
ValidateProduct(product) ==
    IF product = PyNone \/ (product.py = "str" /\ product.chars = <<>>)
    THEN "InputError: Product cannot be empty"
    ELSE IF product.py # "str" THEN "InputError: Product must be a string"
    ELSE IF Len(Strip(product.chars)) < 2
         THEN "InputError: Product must be at least 2 characters long"
    ELSE "none"

\* float(text) for a text of digits and dots: the whole part, when the text
\* is a number whose fraction is one zero; a ValueError otherwise.
RECURSIVE WholeNumber(_)
WholeNumber(chars) ==
    IF chars = <<>> THEN 0 ELSE 10 * WholeNumber(Front(chars)) + Digits[Last(chars)]
ParseFloat(chars) ==
    LET dots == {i \in 1..Len(chars) : chars[i] = "."}
    IN  IF Cardinality(dots) > 1 \/ Len(chars) = Cardinality(dots)
        THEN [raised |-> "ValueError", v |-> 0]
        ELSE [raised |-> "none",
              v |-> IF dots = {} \/ chars[Len(chars)] = "."
                    THEN WholeNumber(SelectSeq(chars, LAMBDA c : c # "."))
                    ELSE WholeNumber(SelectSeq(chars, LAMBDA c : c # ".")) \div 10]

\* _validate_budget, lines 95-103, on the number.
CheckedBudget(v) ==
    IF v <= 0
    THEN [raised |-> "InputError: Budget must be greater than zero", budget |-> 0]
    ELSE [raised |-> "none", budget |-> v]

\* _validate_budget, lines 87-93, on the result of float(budget_str).
ConvertedBudget(parsed) ==
    IF parsed.raised # "none"
    THEN [raised |-> "InputError: Invalid budget format", budget |-> 0]
    ELSE CheckedBudget(parsed.v)

\* _validate_budget(budget): the InputError raised, or the budget stored.
ValidateBudget(budget) ==
    IF budget = PyNone \/ (budget.py = "str" /\ budget.chars = <<>>)
       \/ (budget.py = "float" /\ budget.v = 0)
    THEN [raised |-> "InputError: Budget cannot be empty", budget |-> 0]
    ELSE IF budget.py = "str"
         THEN ConvertedBudget(
                  ParseFloat(SelectSeq(budget.chars,
                                       LAMBDA c : c \in DOMAIN Digits \cup {"."})))
    ELSE CheckedBudget(budget.v)

\* What the user may type.
ProductInputs == {PyNone, PyStr(<<>>), PyStr(<<" ", "t", " ">>), PyStr(<<"t", "v">>)}
BudgetInputs ==
    {PyNone, PyFloat(0), PyFloat(-100), PyFloat(100), PyStr(<<>>),
     PyStr(<<"1", "0", "0">>), PyStr(<<"-", "1", "0", "0">>),
     PyStr(<<"1", "0", "0", ".", "0">>), PyStr(<<"a", "b", "c">>)}

\* Products as _normalize_data lets them through: with a name and a price.
Collectable == {p \in Catalog : p.price > 0}

\* What collect_reviews may return for the collected products: position i
\* holds product i, or an equal product enriched later in its place.
Shortlists(h, ids) ==
    {s \in [1..Len(Prefix(ids, MAX_PRODUCTS)) -> Range(ids)] :
        \A i \in DOMAIN s :
            \E j \in i..Len(Prefix(ids, MAX_PRODUCTS)) :
                s[i] = ids[j] /\ h[ids[j]] = h[ids[i]]}

SearchInit ==
    /\ \E product \in ProductInputs, budget \in BudgetInputs :
          search = [pc |-> "start", product |-> product, budget |-> budget,
                    scraper |-> "new", shortlist |-> <<>>, primary |-> "not_run",
                    alternatives |-> <<>>, response |-> "none"]
    /\ aheap = <<>>
    /\ alist = <<>>
    /\ abudget = 0
    /\ aprefs \in PreferenceLists
    /\ acall = NoCall
    /\ ncalls = 0
    /\ files = <<>>
    /\ now = 0
    /\ CacheIdle
    /\ EnrichIdle
    /\ KeyIdle
    /\ RetryIdle

\* search, lines 72-81 and 133-135: process_input, generate_search_queries,
\* web_scraper.initialize.
\* A slip: the web scraper initialized before the input is processed.
SearchProcessInputScraperFirst ==
    /\ search.pc = "start"
    /\ IF ValidateProduct(search.product) # "none"
       THEN /\ search' = [search EXCEPT !.pc = "done", !.scraper = "closed",
                                        !.response = ValidateProduct(search.product)]
            /\ UNCHANGED abudget
       ELSE IF ValidateBudget(search.budget).raised # "none"
       THEN /\ search' = [search EXCEPT !.pc = "done", !.scraper = "closed",
                                        !.response = ValidateBudget(search.budget).raised]
            /\ UNCHANGED abudget
       ELSE /\ search' = [search EXCEPT !.pc = "initialized", !.scraper = "open"]
            /\ abudget' = ValidateBudget(search.budget).budget
    /\ UNCHANGED <<aheap, alist, aprefs, acall, ncalls, outsideEngine>>

SearchProcessInput ==
    /\ search.pc = "start"
    /\ IF ValidateProduct(search.product) # "none"
       THEN /\ search' = [search EXCEPT !.pc = "done",
                                        !.response = ValidateProduct(search.product)]
            /\ UNCHANGED abudget
       ELSE IF ValidateBudget(search.budget).raised # "none"
       THEN /\ search' = [search EXCEPT !.pc = "done",
                                        !.response = ValidateBudget(search.budget).raised]
            /\ UNCHANGED abudget
       ELSE /\ search' = [search EXCEPT !.pc = "initialized", !.scraper = "open"]
            /\ abudget' = ValidateBudget(search.budget).budget
    /\ UNCHANGED <<aheap, alist, aprefs, acall, ncalls, outsideEngine>>

\* search, lines 84-86: collect_data returns products.
SearchCollectData ==
    /\ search.pc = "initialized"
    /\ \E n \in 1..MaxSearchProducts :
          /\ aheap' \in [1..n -> Collectable]
          /\ alist' = [i \in 1..n |-> i]
    /\ search' = [search EXCEPT !.pc = "collected"]
    /\ UNCHANGED <<abudget, aprefs, acall, ncalls, outsideEngine>>

\* search, lines 84-97: collect_data returns no product.
SearchCollectNothing ==
    /\ search.pc = "initialized"
    /\ \E r \in {GenerateAlternatives(aheap, <<>>, abudget, aprefs)} :
          /\ aheap' = r.h
          /\ acall' = [NoCall EXCEPT !.op = "generate_alternatives", !.alt = r.out,
                                     !.raised = r.raised, !.logged = r.logged]
    /\ ncalls' = ncalls + 1
    /\ search' = [search EXCEPT
                     !.pc = "done", !.scraper = "closed",
                     !.alternatives = Append(@, [products |-> <<>>,
                                                 primary |-> search.primary]),
                     !.response = "Error: No products found matching your criteria."]
    /\ UNCHANGED <<alist, abudget, aprefs, outsideEngine>>

\* search, lines 84-85, 129-131 and 137-151: collect_data raises (a scraping
\* error or a cache write error of _collect_from_platform).
SearchCollectFails ==
    /\ search.pc = "initialized"
    /\ \E e \in {"ScrapingError", "CacheError"} :
          search' = [search EXCEPT !.pc = "done", !.scraper = "closed",
                                   !.response = "Error: " \o e]
    /\ UNCHANGED <<aheap, alist, abudget, aprefs, acall, ncalls, outsideEngine>>

\* search, line 101: collect_reviews(products).
SearchCollectReviews ==
    /\ search.pc = "collected"
    /\ \E s \in Shortlists(aheap, alist) :
          search' = [search EXCEPT !.pc = "enriched", !.shortlist = s]
    /\ UNCHANGED <<aheap, alist, abudget, aprefs, acall, ncalls, outsideEngine>>

\* A slip: the primary path ranking all the collected products.
SearchGenerateRecommendationsAllCollected ==
    /\ search.pc = "enriched"
    /\ \E r \in {GenerateRecommendations(aheap, alist, abudget, aprefs)} :
          /\ aheap' = r.h
          /\ acall' = [NoCall EXCEPT !.op = "generate_recommendations",
                                     !.raised = r.raised, !.recs = r.out]
          /\ search' = IF r.raised = "none"
                       THEN [search EXCEPT !.pc = "done", !.scraper = "closed",
                                           !.primary = "succeeded",
                                           !.response = "recommendations"]
                       ELSE IF r.raised = "TypeError"
                       THEN [search EXCEPT !.pc = "done", !.scraper = "closed",
                                           !.primary = "failed",
                                           !.response = "Error: An unexpected error occurred"]
                       ELSE [search EXCEPT !.pc = "no_results", !.primary = "failed"]
    /\ ncalls' = ncalls + 1
    /\ UNCHANGED <<alist, abudget, aprefs, outsideEngine>>

\* search, lines 104-114: generate_recommendations on the shortlist.
SearchGenerateRecommendations ==
    /\ search.pc = "enriched"
    /\ \E r \in {GenerateRecommendations(aheap, search.shortlist, abudget, aprefs)} :
          /\ aheap' = r.h
          /\ acall' = [NoCall EXCEPT !.op = "generate_recommendations",
                                     !.raised = r.raised, !.recs = r.out]
          /\ search' = IF r.raised = "none"
                       THEN [search EXCEPT !.pc = "done", !.scraper = "closed",
                                           !.primary = "succeeded",
                                           !.response = "recommendations"]
                       ELSE IF r.raised = "TypeError"
                       THEN [search EXCEPT !.pc = "done", !.scraper = "closed",
                                           !.primary = "failed",
                                           !.response = "Error: An unexpected error occurred"]
                       ELSE [search EXCEPT !.pc = "no_results", !.primary = "failed"]
    /\ ncalls' = ncalls + 1
    /\ UNCHANGED <<alist, abudget, aprefs, outsideEngine>>

\* search, lines 116-131: the NoResultsError handler.
SearchGenerateAlternatives ==
    /\ search.pc = "no_results"
    /\ \E r \in {GenerateAlternatives(aheap, alist, abudget, aprefs)} :
          /\ aheap' = r.h
          /\ acall' = [NoCall EXCEPT !.op = "generate_alternatives", !.alt = r.out,
                                     !.raised = r.raised, !.logged = r.logged]
    /\ ncalls' = ncalls + 1
    /\ search' = [search EXCEPT
                     !.pc = "done", !.scraper = "closed",
                     !.alternatives = Append(@, [products |-> alist,
                                                 primary |-> search.primary]),
                     !.response = "alternatives"]
    /\ UNCHANGED <<alist, abudget, aprefs, outsideEngine>>

SearchNext ==
    \/ SearchProcessInput
    \/ SearchCollectData
    \/ SearchCollectNothing
    \/ SearchCollectFails
    \/ SearchCollectReviews
    \/ SearchGenerateRecommendations
    \/ SearchGenerateAlternatives

SpecSearch == SearchInit /\ [][SearchNext]_vars

(***************************************************************************)
(* SpecShortlist: search from the call of collect_reviews on, when         *)
(* collect_data has returned more products than collect_reviews keeps.     *)
(***************************************************************************)
\* Longest products list collect_data returns in the shortlist specification.
MaxCollected == 6

\* Within the budget of 100; within it, cheaper and better rated; above it
\* and its flexibility, but within those of the increased budget.
CollectedCatalog ==
    {AProduct(<<"laptop">>, <<>>, 90, 41, 1000),
     AProduct(<<"gaming", "laptop">>, <<>>, 60, 45, 100),
     AProduct(<<"laptop">>, <<>>, 130, 42, 10)}

\* search at line 101: the input is processed, the scraper initialized,
\* collect_data has returned its products.
ShortlistInit ==
    /\ \E n \in 1..MaxCollected :
          /\ aheap \in [1..n -> CollectedCatalog]
          /\ alist = [i \in 1..n |-> i]
    /\ search = [pc |-> "collected", product |-> PyStr(<<"t", "v">>),
                 budget |-> PyFloat(100), scraper |-> "open", shortlist |-> <<>>,
                 primary |-> "not_run", alternatives |-> <<>>, response |-> "none"]
    /\ abudget = ValidateBudget(PyFloat(100)).budget
    /\ aprefs = <<>>
    /\ acall = NoCall
    /\ ncalls = 0
    /\ files = <<>>
    /\ now = 0
    /\ CacheIdle
    /\ EnrichIdle
    /\ KeyIdle
    /\ RetryIdle

ShortlistNext ==
    \/ SearchCollectReviews
    \/ SearchGenerateRecommendations
    \/ SearchGenerateAlternatives

SpecShortlist == ShortlistInit /\ [][ShortlistNext]_vars

(***************************************************************************)
(* Claims                                                                  *)
(***************************************************************************)

\* C1: when collect_reviews has returned, the returned list is the input
\* shortlist: same length, and at every position the product that was
\* there when the run began.
C1_ShortlistKept ==
    mainpc = "returned" => top = Prefix(products, cfg.max_products)

\* Whether get_cached_data is asked about a file it must treat as a miss:
\* missing, not deserializable, not a timestamp+payload object, without a
\* (parsable) timestamp, or older than the TTL.
MustMiss(f, t, ttl) ==
    IF f.fmt # "object" THEN TRUE
    ELSE IF f.timestamp.ts # "iso" THEN TRUE
    ELSE t - f.timestamp.t > ttl

\* C2: get_cached_data fails closed: for every file it must treat as a
\* miss it returns None and raises nothing.
C2_FailsClosed ==
    ret.op = "get" =>
        (MustMiss(files[ret.key], now, ret.ttl) => ret.res = RetNone)

C4_WriteFailureNotFatal ==
    \A i \in Finished :
        /\ task[i].failedE # PyNone =>
              /\ task[i].pc = "returned"
              /\ heap[ProductOf(i)].reviews = task[i].failedE
        /\ task[i].failedF # PyNone =>
              /\ task[i].pc = "returned"
              /\ heap[ProductOf(i)].forum_reviews = task[i].failedF

\* C10: with forum enrichment disabled the forum source is never called,
\* no forum cache key is written, the forum cache entries stay what they
\* were, and no product gains a forum_reviews list.
C10_ForumDisabled ==
    (cfg.spec = "enrich" /\ ~cfg.INCLUDE_FORUM_REVIEWS) =>
        /\ ~forumLog.called
        /\ ~forumLog.written
        /\ \A k \in ForumKeys : files[k] = forumLog.before[k]
        /\ \A o \in DOMAIN heap : heap[o].forum_reviews = Absent

\* C10 witness: a finished run with forum enrichment disabled that
\* attached marketplace reviews to two products.
C10_Witness ==
    /\ mainpc = "returned"
    /\ ~cfg.INCLUDE_FORUM_REVIEWS
    /\ Len(top) = 2
    /\ \A i \in Shortlist : task[i].pc = "returned" /\ heap[ProductOf(i)].reviews # Absent

\* The products filter_by_budget may return: price defined and at most
\* budget * (1 + flexibility).
Eligible(o) ==
    /\ aheap[o].price # NoPrice
    /\ 100 * aheap[o].price <= abudget * (100 + BUDGET_FLEXIBILITY_PCT)

\* C5: filter_by_budget returns only products whose price is defined and at
\* most budget * (1 + flexibility), returns no product twice, and returns at
\* least min(3, |products|) products whenever at least 3 such products
\* exist.
C5_FilterByBudget ==
    acall.op = "filter_by_budget" =>
        /\ \A i \in 1..Len(acall.out) : Eligible(acall.out[i])
        /\ \A i, j \in 1..Len(acall.out) : i # j => acall.out[i] # acall.out[j]
        /\ Cardinality({o \in Range(alist) : Eligible(o)}) >= 3
              => Len(acall.out) >= (IF Len(alist) < 3 THEN Len(alist) ELSE 3)

\* filter_by_budget has backfilled over-budget products out of a list with
\* at least three eligible products, leaving one product of the list out.
C5_Witness ==
    /\ acall.op = "filter_by_budget"
    /\ Cardinality({o \in Range(alist) : Eligible(o)}) >= 3
    /\ \E i \in 1..Len(acall.out) : aheap[acall.out[i]].price > abudget
    /\ Len(acall.out) < Len(alist)

\* The position of product o in list.
PositionIn(list, o) == CHOOSE i \in 1..Len(list) : list[i] = o

\* Ties of the last rank_products call are in the order of list.
TiesInOrderOf(list) ==
    \A i, j \in 1..Len(acall.out) :
        (i < j /\ aheap[acall.out[i]].combined_score = aheap[acall.out[j]].combined_score)
            => PositionIn(list, acall.out[i]) < PositionIn(list, acall.out[j])

\* C6 as stated: two products returned by rank_products with equal
\* combined_score are in the relative order they had in the products list
\* passed to rank_products.
C6_StableInInputOrder ==
    acall.op = "rank_products" => TiesInOrderOf(alist)

\* C6, amended: two products returned by rank_products with equal
\* combined_score are in the relative order they had in the list
\* filter_by_budget returned (products within budget in input order, then
\* the backfilled over-budget products by ascending price).
C6_StableInFilterOrder ==
    acall.op = "rank_products" =>
        TiesInOrderOf(FilterByBudget(aheap, alist, abudget).out)

\* rank_products has returned two backfilled over-budget products with equal
\* combined_score that the input list held in the opposite order.
C6_Witness ==
    /\ acall.op = "rank_products"
    /\ \E i, j \in 1..Len(acall.out) :
          /\ i < j
          /\ aheap[acall.out[i]].combined_score = aheap[acall.out[j]].combined_score
          /\ aheap[acall.out[i]].price > abudget
          /\ aheap[acall.out[j]].price > abudget
          /\ PositionIn(alist, acall.out[i]) > PositionIn(alist, acall.out[j])

\* C7: among the products rank_products has scored, the combined score does
\* not decrease with preference_score, nor with review_score, the other two
\* terms being equal, and does not increase with the price of products
\* priced above the budget.
C7_ScoreMonotone ==
    acall.op = "rank_products" =>
        \A i, j \in 1..Len(acall.out) :
            LET p == aheap[acall.out[i]]
                q == aheap[acall.out[j]]
            IN  /\ (/\ p.review_score = q.review_score
                    /\ p.price_score = q.price_score
                    /\ p.preference_score <= q.preference_score)
                       => p.combined_score <= q.combined_score
                /\ (/\ p.preference_score = q.preference_score
                    /\ p.price_score = q.price_score
                    /\ p.review_score <= q.review_score)
                       => p.combined_score <= q.combined_score
                /\ (/\ p.preference_score = q.preference_score
                    /\ p.review_score = q.review_score
                    /\ abudget < p.price
                    /\ p.price <= q.price)
                       => q.combined_score <= p.combined_score

\* rank_products has scored a pair of products differing in the preference
\* score only and a pair of over-budget products differing in the price
\* only, each pair with different combined scores.
C7_Witness ==
    /\ acall.op = "rank_products"
    /\ \E i, j \in 1..Len(acall.out) :
          LET p == aheap[acall.out[i]]
              q == aheap[acall.out[j]]
          IN  /\ p.review_score = q.review_score
              /\ p.price_score = q.price_score
              /\ p.preference_score < q.preference_score
              /\ p.combined_score < q.combined_score
    /\ \E i, j \in 1..Len(acall.out) :
          LET p == aheap[acall.out[i]]
              q == aheap[acall.out[j]]
          IN  /\ p.preference_score = q.preference_score
              /\ p.review_score = q.review_score
              /\ abudget < p.price
              /\ p.price < q.price
              /\ q.combined_score < p.combined_score

\* C8 as stated: generate_alternatives is invoked only after the primary
\* path (generate_recommendations) failed on a non-empty product list.
C8_AlternativesOnlyAfterPrimaryFailure ==
    search.pc # "none" =>
        \A i \in 1..Len(search.alternatives) :
            /\ search.alternatives[i].primary = "failed"
            /\ search.alternatives[i].products # <<>>

\* generate_alternatives was called on a non-empty products list all of
\* whose products are priced above budget * 1.1.
AllAboveFlexibility ==
    /\ acall.op = "generate_alternatives"
    /\ alist # <<>>
    /\ \A o \in Range(alist) :
          /\ aheap[o].price # NoPrice
          /\ 100 * aheap[o].price > abudget * 110

\* The increased_budget block holds budget * 1.2 and one to three
\* recommendations.
IncreasedBudgetPopulated ==
    /\ acall.alt.increased_budget.set
    /\ 10 * acall.alt.increased_budget.budget = 12 * abudget
    /\ Len(acall.alt.increased_budget.recommendations) \in 1..3

\* C9 as stated: when every product of a non-empty list is priced above
\* budget * 1.1, the primary ranking is empty and generate_alternatives
\* returns a populated increased_budget block.
C9_IncreasedBudgetAlways ==
    AllAboveFlexibility =>
        /\ RankProducts(aheap, alist, abudget, aprefs).out = <<>>
        /\ IncreasedBudgetPopulated

\* C9, amended: when every product of a non-empty list is priced above
\* budget * 1.1, the primary ranking is empty, and the increased_budget
\* block is populated (with budget * 1.2 and one to three recommendations)
\* exactly when some product is priced at most budget * 1.2 * 1.1; otherwise
\* the block stays None.
C9_IncreasedBudgetWhenReachable ==
    AllAboveFlexibility =>
        /\ RankProducts(aheap, alist, abudget, aprefs).out = <<>>
        /\ IF \E o \in Range(alist) : 1000 * aheap[o].price <= abudget * 12 * 110
           THEN IncreasedBudgetPopulated
           ELSE acall.alt.increased_budget = NoBlock

\* generate_alternatives has returned three recommendations out of four
\* products that are all above budget * 1.1 and within budget * 1.2.
C9_Witness ==
    /\ AllAboveFlexibility
    /\ Len(alist) = 4
    /\ \A o \in Range(alist) : 10 * aheap[o].price <= abudget * 12
    /\ Len(acall.alt.increased_budget.recommendations) = 3

\* C11: at every moment of collect_reviews at most 3 enrichment tasks are
\* executing, and every shortlist product has been submitted at most once
\* while the futures are being created and exactly once from then on.
C11_PoolBound ==
    cfg.spec = "pool" =>
        /\ Cardinality(Running) <= 3
        /\ \A k \in Shortlist :
              LET n == Cardinality({i \in DOMAIN task : task[i].product = products[k]})
              IN  IF mainpc = "submit" THEN n <= 1 ELSE n = 1

\* Three tasks of a shortlist of five are executing and a fourth, already
\* submitted, waits for a thread.
C11_Witness ==
    /\ cfg.spec = "pool"
    /\ Len(top) = 5
    /\ Cardinality(Running) = 3
    /\ \E i \in DOMAIN task : task[i].pc = "queued"

\* C12: the failure of one enrichment task aborts nothing: collect_reviews
\* does not raise, and when it has returned every task has run to its end,
\* every product whose task returned past the early return carries its
\* review lists, and a product whose task raised is at its own position.
C12_FailureIsolated ==
    cfg.spec = "enrich" =>
        /\ mainpc \in {"as_completed", "returned"}
        /\ mainpc = "returned" =>
              \A i \in Shortlist :
                  /\ task[i].pc \in {"returned", "raised"}
                  /\ task[i].pc = "raised" => top[i] = products[i]
                  /\ (task[i].pc = "returned" /\ BaseOf(i).url # "") =>
                        /\ heap[products[i]].reviews # Absent
                        /\ IncludeForumReviews =>
                              heap[products[i]].forum_reviews # Absent

\* collect_reviews has returned after the task of one product raised and
\* the task of another product attached its reviews.
C12_Witness ==
    /\ cfg.spec = "enrich"
    /\ mainpc = "returned"
    /\ \E i, j \in Shortlist :
          /\ task[i].pc = "raised"
          /\ task[j].pc = "returned"
          /\ heap[products[j]].reviews # Absent

\* C13 as stated: when the marketplace scrape of a product raised or found
\* no review, the enrichment of the product ends with product.reviews
\* holding 3 to 5 synthesized reviews, each rated 1 to 5.
C13_MockFallback ==
    cfg.spec = "enrich" =>
        \A i \in Shortlist :
            (task[i].pc \in {"returned", "raised"}
             /\ task[i].scraped \in {"raised", "empty"})
            => /\ heap[ProductOf(i)].reviews # Absent
               /\ Len(heap[ProductOf(i)].reviews.items) \in 3..5
               /\ \A k \in 1..Len(heap[ProductOf(i)].reviews.items) :
                     heap[ProductOf(i)].reviews.items[k] \in 1..5

\* Whitespace runs collapsed to one blank, leading and trailing blanks
\* dropped: what "differing only in the amount or position of whitespace"
\* leaves of a query.
RECURSIVE CollapseSpaces(_)
CollapseSpaces(s) ==
    IF s = <<>> THEN <<>>
    ELSE LET rest == CollapseSpaces(Tail(s))
         IN  IF Head(s) # " " THEN <<Head(s)>> \o rest
             ELSE IF rest = <<>> \/ Head(rest) = " " THEN rest
             ELSE <<" ">> \o rest

Trimmed(s) == IF s # <<>> /\ Head(s) = " " THEN Tail(s) ELSE s

\* C14: generate_cache_key is deterministic and normalizing: with the same
\* source tag, equal queries give equal keys, and so do queries that differ
\* only in letter case or only in the amount or position of whitespace.
C14_KeyNormalized ==
    keyed.pc = "second" =>
        /\ keyed.query = keyed.other => keyed.key = keyed.otherKey
        /\ Lower(keyed.query) = Lower(keyed.other) => keyed.key = keyed.otherKey
        /\ Trimmed(CollapseSpaces(keyed.query)) = Trimmed(CollapseSpaces(keyed.other))
               => keyed.key = keyed.otherKey

\* The products rank_products keeps at a budget, and whether scoring them
\* goes through.
Rankable(budget) ==
    \E f \in {FilterByBudget(aheap, alist, budget)} :
        /\ f.out # <<>>
        /\ \A i \in 1..Len(f.out) : ~ScoreRaises(f.h[f.out[i]])

RankFails(budget) ==
    \E f \in {FilterByBudget(aheap, alist, budget)} :
        \E i \in 1..Len(f.out) : ScoreRaises(f.h[f.out[i]])

\* C15: generate_alternatives never raises: a failure inside the
\* increased-budget attempt or inside the reduced-preference attempt is
\* caught and logged, the other attempt still runs (its block is filled
\* whenever its own ranking goes through and is not empty), and a result
\* is returned.
C15_AlternativesNeverRaise ==
    acall.op = "generate_alternatives" =>
        /\ acall.raised = "none"
        /\ acall.alt.increased_budget.set = Rankable(IncreasedBudget(abudget))
        /\ acall.alt.alternative_products.set = (Len(aprefs) > 1 /\ Rankable(abudget))
        /\ acall.logged =
              (IF RankFails(IncreasedBudget(abudget))
               THEN <<"increased_budget">> ELSE <<>>)
              \o (IF Len(aprefs) > 1 /\ RankFails(abudget)
                  THEN <<"reduced_preferences">> ELSE <<>>)
        /\ acall.alt.suggestions # <<>>

\* The increased-budget attempt failed and was caught; the reduced-preference
\* attempt ran after it and filled its block.
C15_Witness ==
    /\ acall.op = "generate_alternatives"
    /\ acall.raised = "none"
    /\ acall.logged = <<"increased_budget">>
    /\ ~acall.alt.increased_budget.set
    /\ acall.alt.alternative_products.set

\* C16: extract_key_features and explain_recommendation leave every existing
\* field of the product unchanged, its features list in particular, so that
\* ranking the same products after generate_recommendations has called them
\* gives every product the scores that ranking them before would have given.
C16_FeaturesUntouched ==
    [][acall'.op = "generate_recommendations" =>
          \A o \in DOMAIN aheap :
              /\ aheap'[o].features = aheap[o].features
              /\ RankProducts(aheap', alist, abudget, aprefs).h[o].preference_score
                   = RankProducts(aheap, alist, abudget, aprefs).h[o].preference_score
              /\ RankProducts(aheap', alist, abudget, aprefs).h[o].combined_score
                   = RankProducts(aheap, alist, abudget, aprefs).h[o].combined_score]_vars

\* The number a budget input denotes: the float itself, or the number a
\* text spells (an optional minus sign, then digits and at most one dot);
\* any other text is not numeric.
SpelledNumber(chars) ==
    IF chars # <<>> /\ Head(chars) = "-"
    THEN [numeric |-> /\ \A i \in 2..Len(chars) : chars[i] \in DOMAIN Digits \cup {"."}
                      /\ ParseFloat(Tail(chars)).raised = "none",
          v |-> 0 - ParseFloat(SelectSeq(chars, LAMBDA c : c \in DOMAIN Digits \cup {"."})).v]
    ELSE [numeric |-> /\ \A i \in 1..Len(chars) : chars[i] \in DOMAIN Digits \cup {"."}
                      /\ ParseFloat(chars).raised = "none",
          v |-> ParseFloat(SelectSeq(chars, LAMBDA c : c \in DOMAIN Digits \cup {"."})).v]

SuppliedBudget(budget) ==
    IF budget = PyNone THEN [numeric |-> FALSE, v |-> 0]
    ELSE IF budget.py = "float" THEN [numeric |-> TRUE, v |-> budget.v]
    ELSE SpelledNumber(budget.chars)

BudgetErrors ==
    {"InputError: Budget cannot be empty", "InputError: Invalid budget format",
     "InputError: Budget must be greater than zero"}

\* C17: budget validation rejects every empty, non-numeric, zero or negative
\* budget with an InputError, given as a number or as a text, and on
\* acceptance stores a float greater than zero equal to the number supplied.
C17_BudgetValidated ==
    (search.pc \notin {"none", "start"} /\ ValidateProduct(search.product) = "none") =>
        IF SuppliedBudget(search.budget).numeric /\ SuppliedBudget(search.budget).v > 0
        THEN /\ search.scraper # "new"
             /\ abudget = SuppliedBudget(search.budget).v
        ELSE /\ search.pc = "done"
             /\ search.response \in BudgetErrors

ProductErrors ==
    {"InputError: Product cannot be empty", "InputError: Product must be a string",
     "InputError: Product must be at least 2 characters long"}

InvalidProduct == ValidateProduct(search.product) # "none"
InvalidBudget == ValidateBudget(search.budget).raised # "none"

C19_ForumCacheAfterMarketplace ==
    cfg.spec = "enrich" =>
        \A i \in Shortlist :
            task[i].forumCacheRead => task[i].pc \notin {"scrape", "scrapeFailed"}

\* The two pools of the last filter_by_budget call, told from the prices:
\* the products within budget in input order, and the over-budget products
\* within the flexibility limit.
InBudget == SelectSeq(alist, LAMBDA o : aheap[o].price # NoPrice /\ aheap[o].price <= abudget)
OverBudgetPool == {o \in Range(alist) : Eligible(o) /\ aheap[o].price > abudget}
Backfilled == SubSeq(acall.out, Len(InBudget) + 1, Len(acall.out))

\* C20: filter_by_budget returns all products with price <= budget in input
\* order; over-budget products within the flexibility limit follow only if
\* fewer than 3 products are within budget, cheapest first, until 3 are
\* returned or the over-budget pool is exhausted; no over-budget product is
\* returned while a cheaper one is left out.
C20_BackfillCheapestFirst ==
    acall.op = "filter_by_budget" =>
        /\ Len(acall.out) >= Len(InBudget)
        /\ SubSeq(acall.out, 1, Len(InBudget)) = InBudget
        /\ Range(Backfilled) \subseteq OverBudgetPool
        /\ Len(Backfilled) = Cardinality(Range(Backfilled))
        /\ Len(Backfilled) =
              (IF Len(InBudget) >= MIN_POOL THEN 0
               ELSE IF Cardinality(OverBudgetPool) < MIN_POOL - Len(InBudget)
                    THEN Cardinality(OverBudgetPool)
               ELSE MIN_POOL - Len(InBudget))
        /\ \A i, j \in 1..Len(Backfilled) :
              i < j => aheap[Backfilled[i]].price <= aheap[Backfilled[j]].price
        /\ \A o \in Range(Backfilled), left \in OverBudgetPool \ Range(Backfilled) :
              aheap[o].price <= aheap[left].price

\* Two products within budget, and of two over-budget products the cheaper
\* one returned after them although it came later in the list.
C20_Witness ==
    /\ acall.op = "filter_by_budget"
    /\ Len(InBudget) = 2
    /\ Len(Backfilled) = 1
    /\ \E left \in OverBudgetPool \ Range(Backfilled) :
          /\ aheap[Backfilled[1]].price < aheap[left].price
          /\ PositionIn(alist, left) < PositionIn(alist, Backfilled[1])

\* The price score the formula gives, times the budget, for r = price/budget:
\* 1 - 0.5 * r when r <= 1, max(0, 0.5 - 2 * (r - 1)) when r > 1.
FormulaPriceScoreTimesBudget(price, budget) ==
    IF price <= budget
    THEN SCORE_SCALE * budget - (SCORE_SCALE \div 2) * price
    ELSE Max(0, (SCORE_SCALE \div 2) * budget - 2 * SCORE_SCALE * (price - budget))

\* C21: every product rank_products returns with a non-negative price has
\* price_score = 1 - 0.5 * r (between 0.5 and 1.0) when r = price/budget is
\* at most 1, and max(0, 0.5 - 2 * (r - 1)) (between 0 and 0.5) when r > 1.
C21_PriceScoreFormula ==
    (acall.op = "rank_products" /\ acall.raised = "none") =>
        \A i \in 1..Len(acall.out) :
            LET p == aheap[acall.out[i]]
            IN  p.price >= 0 =>
                  /\ p.price_score * abudget
                       = FormulaPriceScoreTimesBudget(p.price, abudget)
                  /\ p.price <= abudget =>
                        (2 * p.price_score >= SCORE_SCALE /\ p.price_score <= SCORE_SCALE)
                  /\ p.price > abudget =>
                        (p.price_score >= 0 /\ 2 * p.price_score <= SCORE_SCALE)

\* How a key feature stands to the preferences: 2 when it equals one of
\* them, 1 when it only contains or is contained in one, 0 otherwise.
MatchClass(feature, prefs) ==
    IF \E i \in 1..Len(prefs) : prefs[i] = feature THEN 2
    ELSE IF \E i \in 1..Len(prefs) :
                Contains(feature, prefs[i]) \/ Contains(prefs[i], feature)
         THEN 1
    ELSE 0

\* C22: the key features of a recommendation are at most 5, without
\* duplicates, and with preferences supplied the features equal to a
\* preference come before those only partially matching one, which come
\* before those matching none, features of one class in the order in which
\* the product's features list first shows them; for any number of
\* preferences.
C22_KeyFeaturesOrdered ==
    (acall.op = "generate_recommendations" /\ acall.raised = "none") =>
        \A n \in 1..Len(acall.recs) :
            LET kf == acall.recs[n].key_features
                seen == aheap[acall.recs[n].product].features
            IN  /\ Len(kf) <= 5
                /\ \A i, j \in 1..Len(kf) : i # j => kf[i] # kf[j]
                /\ aprefs # <<>> =>
                      \A i, j \in 1..Len(kf) :
                          i < j =>
                            /\ MatchClass(kf[i], aprefs) >= MatchClass(kf[j], aprefs)
                            /\ MatchClass(kf[i], aprefs) = MatchClass(kf[j], aprefs)
                                 => PositionIn(seen, kf[i]) < PositionIn(seen, kf[j])

\* The products that survive the ranking of the request: those
\* filter_by_budget keeps.
Survivors == Range(FilterByBudget(aheap, alist, abudget).out)
Recommended == {acall.recs[n].product : n \in 1..Len(acall.recs)}

\* C23: on success generate_recommendations returns exactly
\* min(TOP_RECOMMENDATIONS, number of ranking survivors) recommendations,
\* each wrapping a distinct ranked product, in non-increasing combined_score
\* order, and no survivor left out has a higher combined_score than a
\* returned one.
C23_TopRecommendations ==
    (acall.op = "generate_recommendations" /\ acall.raised = "none") =>
        /\ Len(acall.recs) = (IF Cardinality(Survivors) < 5
                              THEN Cardinality(Survivors) ELSE 5)
        /\ Recommended \subseteq Survivors
        /\ Cardinality(Recommended) = Len(acall.recs)
        /\ \A i, j \in 1..Len(acall.recs) :
              i < j => aheap[acall.recs[i].product].combined_score
                         >= aheap[acall.recs[j].product].combined_score
        /\ \A o \in Recommended, left \in Survivors \ Recommended :
              aheap[left].combined_score <= aheap[o].combined_score

\* Six survivors, five recommended, and the product left out came before a
\* recommended product with a higher score.
C23_Witness ==
    /\ acall.op = "generate_recommendations"
    /\ acall.raised = "none"
    /\ Cardinality(Survivors) = 6
    /\ Len(acall.recs) = 5
    /\ \E o \in Recommended, left \in Survivors \ Recommended :
          /\ aheap[left].combined_score < aheap[o].combined_score
          /\ left < o

\* How often a suggestion occurs in the last result of generate_alternatives.
Suggested(text) ==
    Cardinality({i \in 1..Len(acall.alt.suggestions) : acall.alt.suggestions[i] = text})

C25_AttemptsIndependent ==
    [][(acall'.op = "generate_alternatives" /\ acall'.alt.alternative_products.set) =>
          /\ [n \in 1..Len(acall'.alt.alternative_products.recommendations) |->
                 acall'.alt.alternative_products.recommendations[n].product]
               = Prefix(RankProducts(aheap, alist, abudget, <<aprefs[1]>>).out,
                        MAX_ALTERNATIVES)
          /\ \A n \in 1..Len(acall'.alt.alternative_products.recommendations) :
                LET o == acall'.alt.alternative_products.recommendations[n].product
                IN  aheap'[o].preference_score
                      = RankProducts(aheap, alist, abudget, <<aprefs[1]>>).h[o].preference_score]_vars

\* What get_cached_data returned is a review list, empty or not.
CachedList(r) == r.out = "value" /\ r.val.py = "list"

\* C26: a task that found an unexpired review list of a kind in the cache
\* returns without having called the source of that kind (the scraper for
\* the marketplace list, the forum source for the forum list) and with the
\* cached list attached to its product, whatever the list holds.
C26_CachedReviewsReused ==
    \A i \in Shortlist :
        task[i].pc = "returned" =>
            /\ CachedList(task[i].cachedE) =>
                   /\ task[i].scraped = "no"
                   /\ heap[ProductOf(i)].reviews = task[i].cachedE.val
            /\ (IncludeForumReviews /\ CachedList(task[i].cachedF)) =>
                   /\ ~task[i].forumCalled
                   /\ heap[ProductOf(i)].forum_reviews = task[i].cachedF.val

\* The task saved a list of its own under its key; the list is the one its
\* product carries.
WroteMarketplace(i) ==
    task[i].pc \in {"afterEcommerce", "returned"} /\ task[i].scraped # "no"
WroteForum(i) ==
    task[i].pc = "returned" /\ task[i].forumCalled /\ task[i].failedF = PyNone

\* C27: two tasks of one run that each wrote the same cache key wrote the
\* same payload: the marketplace list each scraped or generated for the
\* same url, the forum list each collected for the same name.
C27_SameKeyWritesAgree ==
    \A i, j \in Shortlist :
        /\ (/\ WroteMarketplace(i) /\ WroteMarketplace(j)
            /\ EcommerceKey(BaseOf(i)) = EcommerceKey(BaseOf(j)))
               => heap[ProductOf(i)].reviews = heap[ProductOf(j)].reviews
        /\ (/\ WroteForum(i) /\ WroteForum(j)
            /\ ForumKey(BaseOf(i)) = ForumKey(BaseOf(j)))
               => heap[ProductOf(i)].forum_reviews = heap[ProductOf(j)].forum_reviews

RECURSIVE Pow(_, _)
Pow(b, e) == IF e = 0 THEN 1 ELSE b * Pow(b, e - 1)

FuncFailed(n) == retry.calls[n].out = "raise"

\* C28: retry_with_backoff ends by returning the value of func's first
\* successful call or by raising func's last exception, never otherwise; it
\* has then made at most max_retries retries after the first call, and it
\* slept initial_delay * backoff_factor^i before retry i (i = 0, 1, ...).
C28_RetryOutcome ==
    /\ retry.pc = "returned" =>
           /\ Len(retry.calls) >= 1
           /\ retry.ret = retry.calls[Len(retry.calls)]
           /\ retry.ret.out = "value"
           /\ \A n \in 1..(Len(retry.calls) - 1) : FuncFailed(n)
    /\ retry.pc = "raised" =>
           /\ Len(retry.calls) >= 1
           /\ retry.ret = retry.calls[Len(retry.calls)]
           /\ \A n \in 1..Len(retry.calls) : FuncFailed(n)
    /\ retry.pc \in {"returned", "raised"} =>
           /\ Len(retry.calls) - 1 <= retry.max_retries
           /\ Len(retry.slept) = Len(retry.calls) - 1
           /\ \A i \in 1..Len(retry.slept) :
                  retry.slept[i] = retry.initial_delay * Pow(retry.backoff_factor, i - 1)

\* The collected products collect_reviews keeps, and the products of the
\* recommendations of a block of alternatives.
Kept == Range(Prefix(alist, MAX_PRODUCTS))
BlockProducts(block) ==
    {block.recommendations[n].product : n \in 1..Len(block.recommendations)}

\* C29: the primary path of search ranks the list collect_reviews returned,
\* which holds at each of its min(n, 5) positions the collected product of
\* that position (or one equal to it from the first five); a product
\* collected at position 6 or later is not touched by the primary ranking
\* and is in none of its recommendations; the handler of NoResultsError
\* hands all n collected products to generate_alternatives.
C29_PrimaryRanksShortlist ==
    /\ search.primary # "not_run" =>
          /\ Len(search.shortlist) = Len(Prefix(alist, MAX_PRODUCTS))
          /\ Range(search.shortlist) \subseteq Kept
    /\ (search.primary = "succeeded" /\ acall.op = "generate_recommendations") =>
          /\ \A n \in 1..Len(acall.recs) :
                 acall.recs[n].product \in Range(search.shortlist)
          /\ \A o \in Range(alist) \ Kept : aheap[o] \in CollectedCatalog
    /\ search.alternatives # <<>> =>
          /\ search.primary = "failed"
          /\ search.alternatives[1].products = alist
          /\ BlockProducts(acall.alt.increased_budget) \subseteq Range(alist)
          /\ BlockProducts(acall.alt.alternative_products) \subseteq Range(alist)

\* Six products collected, the sixth cheaper and better rated than every
\* recommended one, and not recommended.
C29_Witness ==
    /\ search.primary = "succeeded"
    /\ Len(alist) = 6
    /\ Len(acall.recs) >= 1
    /\ \A n \in 1..Len(acall.recs) :
          /\ acall.recs[n].product # 6
          /\ aheap[6].price < aheap[acall.recs[n].product].price
          /\ aheap[6].rating10 > aheap[acall.recs[n].product].rating10

\* rank_products on the products and the budget of the request returns an
\* empty list, with the given preferences.
RanksEmpty(prefs) ==
    /\ RankProducts(aheap, alist, abudget, prefs).raised = "none"
    /\ RankProducts(aheap, alist, abudget, prefs).out = <<>>
RanksSome(prefs) ==
    /\ RankProducts(aheap, alist, abudget, prefs).raised = "none"
    /\ RankProducts(aheap, alist, abudget, prefs).out # <<>>

\* C30: for the products and the budget of the request rank_products
\* returns an empty list with one preference list exactly if it does with
\* every other; and a result of generate_alternatives on products and a
\* budget whose ranking is empty has no reduced-preference block.
C30_EmptinessIgnoresPreferences ==
    /\ \A p, q \in AltPreferenceLists : ~(RanksEmpty(p) /\ RanksSome(q))
    /\ (acall.op = "generate_alternatives" /\ RanksEmpty(aprefs)) =>
          ~acall.alt.alternative_products.set

\* Several preferences, nothing within the budget and its flexibility: the
\* increased budget finds products, the reduced preferences none.
C30_Witness ==
    /\ acall.op = "generate_alternatives"
    /\ alist # <<>>
    /\ Len(aprefs) > 1
    /\ RanksEmpty(aprefs)
    /\ acall.alt.increased_budget.set
    /\ ~acall.alt.alternative_products.set

====
